---------------------------- MODULE Spec2Model ----------------------------
(***************************************************************************)
(* Model of the OHLCV trading pipeline: the batched ILP line writer        *)
(* (src/src/engine/ilp_writer) and the Alpha Vantage polling client with   *)
(* its rolling 24-hour rate limiter (src/src/engine/ingest).               *)
(*                                                                         *)
(* The module holds several specifications over one set of variables:      *)
(*   WriterSpec  - an ILPWriter driven by start/stop/write_tick/flush      *)
(*   Spec        - an AlphaVantageClient: foreground start()/stop() calls, *)
(*                 the fetch loop thread and the clock                     *)
(*   FairSpec    - Spec plus the fairness the thread scheduler gives       *)
(***************************************************************************)
EXTENDS Integers, Sequences, FiniteSets, TLC

(***************************************************************************)
(* Bounds of the model.                                                    *)
(***************************************************************************)
\* largest configured batch size tried (ILPConfig::batch_size is any size_t)
MaxBatch == 3
\* number of write_tick calls accepted in one run
MaxWrites == 4

\* hours the clock advances in one step of the model
ClockStep == 12
\* the last hour the clock reaches
MaxClock == 26

VARIABLES
    writer,     \* the ILPWriter object and the send attempts made on its socket
    wlast       \* history: the last Writer call and the object before it

VARIABLES
    api_key_,          \* AlphaVantageClient configuration
    symbols_,
    running_,          \* std::atomic<bool>
    stop_requested_,   \* std::atomic<bool>
    fetch_thread_,     \* "empty" or "joinable"
    request_times_,    \* the rate limiter's time points, in hours
    pc,                \* position of the fetch loop; "none": no loop executes
    sym_i,             \* index of the symbol the for loop is at (0 outside it)
    ticks_left,        \* ticks of the parsed response not yet handed over
    fg,                \* the foreground caller: "idle" or "join" (inside stop)
    crashed,           \* std::terminate was called
    clock,             \* system_clock, in hours
    issued,            \* history: the clock at the latest requests issued
    allow_log,         \* history: the can_make_request call just made
    clast              \* history: the last start()/stop() call and its result

writerVars == <<writer, wlast>>

clientVars == <<api_key_, symbols_, running_, stop_requested_, fetch_thread_,
                request_times_, pc, sym_i, ticks_left, fg, crashed, clock, issued,
                allow_log, clast>>

VARIABLES
    extract,           \* one extract_json_value call: its arguments and result
    metrics_           \* AlphaVantageClient::metrics_ (LatencyMetrics)

VARIABLES
    http_response,     \* what make_http_request returned for the symbol
    loop_symbol,       \* the symbol the for loop is at
    parsed,            \* the parse call: made or not, its result, the ticks vector
    deliver_pc,        \* position in lines 420-436 of data_fetch_loop
    tick_i,            \* index of the tick the hand-off loop is at
    forwarded,         \* history: the ticks the callback gave to write_tick
    now_us             \* system_clock, in microseconds

deliveryVars == <<http_response, loop_symbol, parsed, deliver_pc, tick_i,
                  forwarded, now_us>>

VARIABLES
    g_shutdown_requested,  \* the orchestrator's shutdown flag (std::atomic<bool>)
    ticks_received,        \* the orchestrator's counter of callback invocations
    ticks_written,         \* the orchestrator's counter of write_tick calls made
    inside                 \* the threads executing a Writer operation

pipeVars == <<g_shutdown_requested, ticks_received, ticks_written, inside>>

VARIABLES
    cycle              \* history of data_fetch_loop: the requests of the cycle

calcVars == <<extract, metrics_, deliveryVars, pipeVars, cycle>>

vars == <<writerVars, clientVars, calcVars>>

(***************************************************************************)
(* TickData (tick_data.h).  Times are small integers; TLC integers are 32  *)
(* bit, so realistic microsecond epochs are not used.                      *)
(***************************************************************************)
TickData(ts, sym, exch, p, qty, s) ==
    [timestamp_us |-> ts, symbol |-> sym, exchange |-> exch, price |-> p,
     quantity |-> qty, side |-> s, receive_time_us |-> ts, process_time_us |-> 0]

\* std::to_string(double) prints six decimals ("%f").  Prices are held in
\* hundredths: 250050 is 2500.5 and prints as 2500.500000.
to_string_double(p) == <<p \div 100, (p % 100) * 10000>>

\* mutant of to_ilp_format: the timestamp is written in microseconds
to_ilp_format_micros(tick) ==
    <<"trades,symbol=", tick.symbol, ",exchange=", tick.exchange,
      " price=", to_string_double(tick.price),
      ",quantity=", tick.quantity,
      ",side=\"", tick.side, "\"",
      " ", tick.timestamp_us>>

\* TickData::to_ilp_format: the line as the sequence of the pieces it is
\* concatenated from
to_ilp_format(tick) ==
    <<"trades,symbol=", tick.symbol, ",exchange=", tick.exchange,
      " price=", to_string_double(tick.price),
      ",quantity=", tick.quantity,
      ",side=\"", tick.side, "\"",
      " ", tick.timestamp_us * 1000>>

\* the ticks handed to write_tick in WriterSpec
SampleTicks ==
    { TickData(1, "RELIANCE", "BSE", 250050, 10, "B"),
      TickData(2, "TCS", "BSE", 310000, 7, "S") }

(***************************************************************************)
(* ILPWriter.  The object is one record; the fields carry the source's     *)
(* names.  Four fields are not members of the class:                       *)
(*   fd_open     - whether the descriptor obtained from socket() is open   *)
(*   attempts    - the calls of send() made so far: payload, the numbers   *)
(*                 of the writes it carries, and whether send succeeded    *)
(*   accepted / pending_ids - the count of accepted writes and, parallel   *)
(*                 to current_batch_, the number of each pending write     *)
(*   written_lines - the lines of the accepted writes, in order            *)
(***************************************************************************)
ILPStats == [lines_sent |-> 0, batches_sent |-> 0, errors |-> 0]

NewWriter(bs) ==
    [batch_size |-> bs, stats_ |-> ILPStats, current_batch_ |-> <<>>,
     running_ |-> FALSE, socket_fd_ |-> -1,
     fd_open |-> FALSE, attempts |-> <<>>, accepted |-> 0, pending_ids |-> <<>>,
     written_lines |-> <<>>]

StartOutcomes == {"socket_fail", "resolve_fail", "connect_fail", "ok"}

\* ILPWriter::start; outcome is what the operating system answers
ILPWriter_start(w, outcome) ==
    IF w.running_ THEN w
    ELSE IF outcome = "socket_fail" THEN [w EXCEPT !.socket_fd_ = -1]
    ELSE IF outcome \in {"resolve_fail", "connect_fail"}
         THEN [w EXCEPT !.socket_fd_ = 3, !.fd_open = FALSE]   \* close(socket_fd_)
    ELSE [w EXCEPT !.socket_fd_ = 3, !.fd_open = TRUE, !.running_ = TRUE]

\* the value ILPWriter::start returns
ILPWriter_start_returns(w, outcome) == ~w.running_ /\ outcome = "ok"

\* the payload send_batch builds: every line followed by a newline
RECURSIVE batch_data(_)
batch_data(lines) ==
    IF lines = <<>> THEN <<>>
    ELSE <<Head(lines), "\n">> \o batch_data(Tail(lines))

\* ILPWriter::send_batch: net_ok is the answer of send()
send_batch(w, net_ok) ==
    IF w.socket_fd_ < 0 THEN [w |-> w, success |-> FALSE]
    ELSE [w |-> [w EXCEPT !.attempts =
                    Append(@, [payload |-> batch_data(w.current_batch_),
                               ids |-> w.pending_ids, ok |-> net_ok])],
          success |-> net_ok]

\* mutant of flush: a failed send keeps the batch for the next flush
flush_requeue(w, net_ok) ==
    IF w.current_batch_ = <<>> \/ ~w.running_ THEN w
    ELSE LET r == send_batch(w, net_ok) IN
         IF r.success
         THEN [r.w EXCEPT !.stats_.lines_sent = @ + Len(w.current_batch_),
                          !.stats_.batches_sent = @ + 1,
                          !.current_batch_ = <<>>, !.pending_ids = <<>>]
         ELSE [r.w EXCEPT !.stats_.errors = @ + 1]

\* mutant of flush: a successful send counts one line instead of the batch
flush_count_one(w, net_ok) ==
    IF w.current_batch_ = <<>> \/ ~w.running_ THEN w
    ELSE LET r == send_batch(w, net_ok) IN
         [r.w EXCEPT !.stats_.lines_sent = IF r.success THEN @ + 1 ELSE @,
                     !.stats_.batches_sent = IF r.success THEN @ + 1 ELSE @,
                     !.stats_.errors = IF r.success THEN @ ELSE @ + 1,
                     !.current_batch_ = <<>>, !.pending_ids = <<>>]

\* mutant of flush: the lines of a failed send are counted as sent
flush_failed_counts_sent(w, net_ok) ==
    IF w.current_batch_ = <<>> \/ ~w.running_ THEN w
    ELSE LET r == send_batch(w, net_ok) IN
         [r.w EXCEPT !.stats_.lines_sent = @ + Len(w.current_batch_),
                     !.stats_.batches_sent = IF r.success THEN @ + 1 ELSE @,
                     !.stats_.errors = IF r.success THEN @ ELSE @ + 1,
                     !.current_batch_ = <<>>, !.pending_ids = <<>>]

\* ILPWriter::flush
flush(w, net_ok) ==
    IF w.current_batch_ = <<>> \/ ~w.running_ THEN w
    ELSE LET r == send_batch(w, net_ok) IN
         [r.w EXCEPT !.stats_.lines_sent =
                        IF r.success THEN @ + Len(w.current_batch_) ELSE @,
                     !.stats_.batches_sent = IF r.success THEN @ + 1 ELSE @,
                     !.stats_.errors = IF r.success THEN @ ELSE @ + 1,
                     !.current_batch_ = <<>>, !.pending_ids = <<>>]

\* mutant of write_tick: the batch is flushed only once it exceeds batch_size
write_tick_late(w, tick, net_ok) ==
    IF ~w.running_ THEN w
    ELSE LET pushed == [w EXCEPT !.current_batch_ = Append(@, to_ilp_format(tick)),
                                 !.accepted = @ + 1,
                                 !.written_lines = Append(@, to_ilp_format(tick)),
                                 !.pending_ids = Append(@, w.accepted + 1)]
         IN IF Len(pushed.current_batch_) > w.batch_size
            THEN flush(pushed, net_ok) ELSE pushed

\* mutant of write_tick: the running flag is not looked at
write_tick_unguarded(w, tick, net_ok) ==
    LET pushed == [w EXCEPT !.current_batch_ = Append(@, to_ilp_format(tick)),
                            !.accepted = @ + 1,
                            !.written_lines = Append(@, to_ilp_format(tick)),
                            !.pending_ids = Append(@, w.accepted + 1)]
    IN IF Len(pushed.current_batch_) >= w.batch_size
       THEN flush(pushed, net_ok) ELSE pushed

\* mutant of write_tick: the line is put at the front of the batch
write_tick_prepend(w, tick, net_ok) ==
    IF ~w.running_ THEN w
    ELSE LET pushed == [w EXCEPT !.current_batch_ = <<to_ilp_format(tick)>> \o @,
                                 !.accepted = @ + 1,
                                 !.written_lines = Append(@, to_ilp_format(tick)),
                                 !.pending_ids = Append(@, w.accepted + 1)]
         IN IF Len(pushed.current_batch_) >= w.batch_size
            THEN flush(pushed, net_ok) ELSE pushed

\* ILPWriter::write_tick
write_tick(w, tick, net_ok) ==
    IF ~w.running_ THEN w
    ELSE LET pushed == [w EXCEPT !.current_batch_ = Append(@, to_ilp_format(tick)),
                                 !.accepted = @ + 1,
                                 !.written_lines = Append(@, to_ilp_format(tick)),
                                 !.pending_ids = Append(@, w.accepted + 1)]
         IN IF Len(pushed.current_batch_) >= w.batch_size
            THEN flush(pushed, net_ok) ELSE pushed

\* mutant of stop: the socket is closed without the final flush
ILPWriter_stop_without_flush(w, net_ok) ==
    IF ~w.running_ THEN w
    ELSE [w EXCEPT !.socket_fd_ = -1,
                   !.fd_open = IF w.socket_fd_ >= 0 THEN FALSE ELSE @,
                   !.running_ = FALSE]

\* ILPWriter::stop
ILPWriter_stop(w, net_ok) ==
    IF ~w.running_ THEN w
    ELSE LET f == flush(w, net_ok) IN
         [f EXCEPT !.socket_fd_ = -1,
                   !.fd_open = IF f.socket_fd_ >= 0 THEN FALSE ELSE @,
                   !.running_ = FALSE]

(***************************************************************************)
(* AlphaVantageClient: the rate limiter.                                   *)
(***************************************************************************)
MAX_REQUESTS_PER_DAY == 25

HOURS_24 == 24

\* mutant of can_make_request: a time point exactly 24 hours old still counts
can_make_request_inclusive(times, now) ==
    LET twenty_four_hours_ago == now - HOURS_24
        recent_requests ==
            Cardinality({i \in DOMAIN times : times[i] >= twenty_four_hours_ago})
    IN recent_requests < MAX_REQUESTS_PER_DAY

\* mutant of can_make_request: the quota itself is allowed once more
can_make_request_off_by_one(times, now) ==
    LET twenty_four_hours_ago == now - HOURS_24
        recent_requests ==
            Cardinality({i \in DOMAIN times : times[i] > twenty_four_hours_ago})
    IN recent_requests <= MAX_REQUESTS_PER_DAY

\* mutant of can_make_request: every retained time point counts, whatever
\* its age
can_make_request_unwindowed(times, now) ==
    LET recent_requests == Cardinality(DOMAIN times)
    IN recent_requests < MAX_REQUESTS_PER_DAY

\* AlphaVantageClient::can_make_request
can_make_request(times, now) ==
    LET twenty_four_hours_ago == now - HOURS_24
        recent_requests ==
            Cardinality({i \in DOMAIN times : times[i] > twenty_four_hours_ago})
    IN recent_requests < MAX_REQUESTS_PER_DAY

\* mutant of record_request: the erase keeps the old time points and removes
\* the recent ones
record_request_inverted(times, now) ==
    LET pushed == Append(times, now)
        twenty_four_hours_ago == now - HOURS_24
    IN SelectSeq(pushed, LAMBDA time : time <= twenty_four_hours_ago)

\* mutant of record_request: a time point exactly 24 hours old is kept
record_request_keeps_boundary(times, now) ==
    LET pushed == Append(times, now)
        twenty_four_hours_ago == now - HOURS_24
    IN SelectSeq(pushed, LAMBDA time : ~(time < twenty_four_hours_ago))

\* AlphaVantageClient::record_request: push_back(now), then erase-remove of the
\* time points at or before now - 24 h
record_request(times, now) ==
    LET pushed == Append(times, now)
        twenty_four_hours_ago == now - HOURS_24
    IN SelectSeq(pushed, LAMBDA time : ~(time <= twenty_four_hours_ago))

(***************************************************************************)
(* AlphaVantageClient: construction.                                       *)
(***************************************************************************)
\* what make_http_request and parse_time_series_response make of a request:
\* an empty response, a response that does not parse, or 2 to 4 ticks
Responses == {"empty", "unparsable", "ticks2", "ticks4"}

TicksOf(response) ==
    CASE response = "ticks2" -> 2
      [] response = "ticks4" -> 4
      [] OTHER -> 0

\* the members start() and stop() act on, and the fetch loop they control
ClientSnapshot(r, s, t, p, x) ==
    [running_ |-> r, stop_requested_ |-> s, fetch_thread_ |-> t, pc |-> p,
     crashed |-> x]

NoCall == [op |-> "none", ret |-> FALSE]

NoAllow == [called |-> FALSE, ret |-> FALSE, at |-> 0]

\* AlphaVantageClient::AlphaVantageClient
NewClient(key, syms) ==
    /\ api_key_ = key
    /\ symbols_ = syms
    /\ running_ = FALSE
    /\ stop_requested_ = FALSE
    /\ fetch_thread_ = "empty"
    /\ request_times_ = <<>>
    /\ pc = "none"
    /\ sym_i = 0
    /\ ticks_left = 0
    /\ fg = "idle"
    /\ crashed = FALSE
    /\ clock = 0
    /\ issued = <<>>
    /\ allow_log = NoAllow
    /\ clast = NoCall

DefaultSymbols == <<"RELIANCE.BSE", "TCS.BSE">>

\* a client that is constructed and never started (the Writer's specification)
ClientIdle == NewClient("demo", DefaultSymbols)

(***************************************************************************)
(* parse_time_series_response (alpha_vantage_client.cpp).  A response is   *)
(* held by what the parser looks for in it:                                *)
(*   empty                 - json_response.empty()                         *)
(*   error_message, invalid_api_call, thank_you, call_frequency            *)
(*                         - whether the phrase occurs in the text         *)
(*   locate                - how far the search for the data block gets    *)
(*   open .. volume        - what extract_json_value returns for the key   *)
(* A field is a record: kind "empty" (the empty string), "junk" (text that *)
(* std::stod rejects) or "num" with its value; a price is held in          *)
(* hundredths (10050 is 100.5), a volume as it is.  A symbol is the        *)
(* sequence of its dot-separated parts.                                    *)
(***************************************************************************)
Absent == [kind |-> "empty", val |-> 0]
Junk == [kind |-> "junk", val |-> 0]
Num(n) == [kind |-> "num", val |-> n]

\* the stages of lines 242-273
Locates == {"no_series", "no_date", "no_date_end", "no_block", "block"}

EmptyPayload ==
    [empty |-> TRUE, error_message |-> FALSE, invalid_api_call |-> FALSE,
     thank_you |-> FALSE, call_frequency |-> FALSE, locate |-> "no_series",
     open |-> Absent, high |-> Absent, low |-> Absent, close |-> Absent,
     volume |-> Absent]

\* the responses tried: the empty one, texts without a data block, and texts
\* with a data block and any combination of fields
Payloads ==
    {EmptyPayload}
    \cup [empty : {FALSE}, error_message : BOOLEAN, invalid_api_call : BOOLEAN,
          thank_you : BOOLEAN, call_frequency : BOOLEAN,
          locate : Locates \ {"block"},
          open : {Absent}, high : {Absent}, low : {Absent}, close : {Absent},
          volume : {Absent}]
    \cup [empty : {FALSE}, error_message : BOOLEAN, invalid_api_call : BOOLEAN,
          thank_you : BOOLEAN, call_frequency : BOOLEAN, locate : {"block"},
          open : {Absent, Junk, Num(10000)},
          high : {Absent, Num(10000), Num(10500)},
          low : {Junk, Num(9500), Num(10000), Num(10500)},
          close : {Absent, Num(9500), Num(10000), Num(10200)},
          volume : {Absent, Junk, Num(3), Num(4000), Num(4003)}]

ParseSymbols == {<<"RELIANCE", "BSE">>, <<"TCS">>}

\* std::stod / std::stoull throw on the empty string and on junk
throws(field) == field.kind # "num"

\* mutant of low_is_distinct: the low is compared with the open only
low_is_distinct_from_open(open_price, high_price, low_price) ==
    low_price # open_price

\* if (low_price != open_price && low_price != high_price)
low_is_distinct(open_price, high_price, low_price) ==
    low_price # open_price /\ low_price # high_price

\* mutant of rate_limited: the rate limit message is not looked for
rate_limited_never(json_response) == FALSE

\* find("Thank you for using Alpha Vantage") && find("call frequency")
rate_limited(json_response) ==
    json_response.thank_you /\ json_response.call_frequency

\* mutant of close_side: a close equal to the open counts as a buy
close_side_at_least(open_price, close_price) ==
    IF close_price >= open_price THEN "B" ELSE "S"

\* close_price > open_price ? 'B' : 'S'
close_side(open_price, close_price) ==
    IF close_price > open_price THEN "B" ELSE "S"

\* mutant of quarter: the quotient is rounded up
quarter_rounded_up(volume) == (volume + 3) \div 4

\* volume / 4 on std::uint64_t
quarter(volume) == volume \div 4

\* mutant of synthesize_ticks: the ticks are stamped by their position
synthesize_ticks_consecutive(json_response, symbol, now) ==
    LET open_price == json_response.open.val
        high_price == json_response.high.val
        low_price == json_response.low.val
        close_price == json_response.close.val
        volume == json_response.volume.val
        clean_symbol == symbol[1]
        exchange == IF Len(symbol) > 1 THEN symbol[2] ELSE "BSE"
        tick(p, s) == TickData(now, clean_symbol, exchange, p, quarter(volume), s)
        made == <<tick(open_price, "B")>>
                \o (IF high_price # open_price THEN <<tick(high_price, "B")>> ELSE <<>>)
                \o (IF low_is_distinct(open_price, high_price, low_price)
                    THEN <<tick(low_price, "S")>> ELSE <<>>)
                \o <<tick(close_price, close_side(open_price, close_price))>>
    IN [i \in 1..Len(made) |-> [made[i] EXCEPT !.timestamp_us = now + i - 1]]

\* lines 298-341: the ticks of one parsed day, stamped from the clock
synthesize_ticks(json_response, symbol, now) ==
    LET open_price == json_response.open.val
        high_price == json_response.high.val
        low_price == json_response.low.val
        close_price == json_response.close.val
        volume == json_response.volume.val
        clean_symbol == symbol[1]
        exchange == IF Len(symbol) > 1 THEN symbol[2] ELSE "BSE"
        timestamp_us == now
        tick(p, s, k) ==
            [TickData(now, clean_symbol, exchange, p, quarter(volume), s)
                EXCEPT !.timestamp_us = timestamp_us + k]
    IN <<tick(open_price, "B", 0)>>
       \o (IF high_price # open_price THEN <<tick(high_price, "B", 1)>> ELSE <<>>)
       \o (IF low_is_distinct(open_price, high_price, low_price)
           THEN <<tick(low_price, "S", 2)>> ELSE <<>>)
       \o <<tick(close_price, close_side(open_price, close_price), 3)>>

\* mutant of parse_time_series_response: only the open is required to be
\* there, a missing field converts to 0
parse_time_series_response_open_only(json_response, symbol, now) ==
    LET failure == [ret |-> FALSE, ticks |-> <<>>]
        junk(field) == field.kind = "junk" IN
    IF json_response.empty THEN failure
    ELSE IF json_response.error_message \/ json_response.invalid_api_call THEN failure
    ELSE IF rate_limited(json_response) THEN failure
    ELSE IF json_response.locate # "block" THEN failure
    ELSE IF json_response.open.kind = "empty" THEN failure
    ELSE IF \/ junk(json_response.open) \/ junk(json_response.high)
            \/ junk(json_response.low) \/ junk(json_response.close)
            \/ junk(json_response.volume) THEN failure
    ELSE [ret |-> TRUE, ticks |-> synthesize_ticks(json_response, symbol, now)]

\* mutant of parse_time_series_response: each field is converted when its
\* tick is made, the open tick being appended before the others are looked at
parse_time_series_response_lazy(json_response, symbol, now) ==
    LET failure == [ret |-> FALSE, ticks |-> <<>>] IN
    IF json_response.empty THEN failure
    ELSE IF json_response.error_message \/ json_response.invalid_api_call THEN failure
    ELSE IF rate_limited(json_response) THEN failure
    ELSE IF json_response.locate # "block" THEN failure
    ELSE IF \/ json_response.open.kind = "empty"
            \/ json_response.close.kind = "empty"
            \/ json_response.volume.kind = "empty" THEN failure
    ELSE IF throws(json_response.open) \/ throws(json_response.volume) THEN failure
    ELSE IF \/ throws(json_response.high) \/ throws(json_response.low)
            \/ throws(json_response.close)
         THEN [ret |-> FALSE,
               ticks |-> <<TickData(now, symbol[1],
                                    IF Len(symbol) > 1 THEN symbol[2] ELSE "BSE",
                                    json_response.open.val,
                                    quarter(json_response.volume.val), "B")>>]
    ELSE [ret |-> TRUE, ticks |-> synthesize_ticks(json_response, symbol, now)]

\* parse_time_series_response: its return value and the ticks vector
parse_time_series_response(json_response, symbol, now) ==
    LET failure == [ret |-> FALSE, ticks |-> <<>>] IN
    IF json_response.empty THEN failure
    ELSE IF json_response.error_message \/ json_response.invalid_api_call THEN failure
    ELSE IF rate_limited(json_response) THEN failure
    ELSE IF json_response.locate # "block" THEN failure
    ELSE IF \/ json_response.open.kind = "empty"
            \/ json_response.close.kind = "empty"
            \/ json_response.volume.kind = "empty" THEN failure
    ELSE IF \/ throws(json_response.open) \/ throws(json_response.high)
            \/ throws(json_response.low) \/ throws(json_response.close)
            \/ throws(json_response.volume) THEN failure
    ELSE [ret |-> TRUE, ticks |-> synthesize_ticks(json_response, symbol, now)]

(***************************************************************************)
(* LatencyMetrics and its update in data_fetch_loop.  Latencies are in     *)
(* microseconds.                                                           *)
(***************************************************************************)
\* largest latency measured
MaxLatency == 3
\* number of requests completed in one run
MaxRequests == 4

\* std::chrono::microseconds::max(), held as the largest integer of the checker
microseconds_max == 2147483647

\* a default-constructed LatencyMetrics
LatencyMetrics ==
    [avg_api_latency |-> 0, max_api_latency |-> 0,
     min_api_latency |-> microseconds_max, request_count |-> 0, error_count |-> 0]

\* a metrics update that lets a failed request lower the minimum
update_metrics_min_on_empty(m, response_empty, latency) ==
    LET request_count == m.request_count + 1
        total_latency == m.avg_api_latency * (request_count - 1)
        lower(cur) == IF latency < cur THEN latency ELSE cur
    IN IF response_empty
       THEN [m EXCEPT !.request_count = request_count, !.error_count = @ + 1,
                      !.min_api_latency = lower(@)]
       ELSE [m EXCEPT !.request_count = request_count,
                      !.avg_api_latency = (total_latency + latency) \div request_count,
                      !.max_api_latency = IF latency > @ THEN latency ELSE @,
                      !.min_api_latency = lower(@)]

\* a metrics update that weighs the old average by the incremented count
update_metrics_overweighted(m, response_empty, latency) ==
    LET request_count == m.request_count + 1
        total_latency == m.avg_api_latency * request_count
    IN IF response_empty
       THEN [m EXCEPT !.request_count = request_count, !.error_count = @ + 1]
       ELSE [m EXCEPT !.request_count = request_count,
                      !.avg_api_latency = (total_latency + latency) \div request_count,
                      !.max_api_latency = IF latency > @ THEN latency ELSE @,
                      !.min_api_latency = IF latency < @ THEN latency ELSE @]

\* the block under metrics_mutex_ in data_fetch_loop
update_metrics(m, response_empty, latency) ==
    LET request_count == m.request_count + 1
        total_latency == m.avg_api_latency * (request_count - 1)
    IN IF response_empty
       THEN [m EXCEPT !.request_count = request_count, !.error_count = @ + 1]
       ELSE [m EXCEPT !.request_count = request_count,
                      !.avg_api_latency = (total_latency + latency) \div request_count,
                      !.max_api_latency = IF latency > @ THEN latency ELSE @,
                      !.min_api_latency = IF latency < @ THEN latency ELSE @]

(***************************************************************************)
(* extract_json_value (alpha_vantage_client.cpp).  A string is a sequence  *)
(* of one-character strings; positions count from 1 and 0 stands for       *)
(* std::string::npos.                                                      *)
(***************************************************************************)
\* longest text tried after the head of a blob
MaxTail == 4

\* the characters blobs are made of: quote, a key letter, colon, space, form
\* feed, the three delimiters and a digit
Alphabet == {"\"", "k", ":", " ", "\f", ",", "}", "]", "1"}

\* std::isspace in the "C" locale (vertical tab is left out of the alphabet)
isspace(ch) == ch \in {" ", "\t", "\n", "\r", "\f"}

\* the characters value.erase trims: " \t\r\n"
TrimChars == {" ", "\t", "\r", "\n"}

\* std::string::find(pattern, from)
find(s, pattern, from) ==
    LET hits == {i \in from..(Len(s) - Len(pattern) + 1) :
                    SubSeq(s, i, i + Len(pattern) - 1) = pattern}
    IN IF hits = {} THEN 0 ELSE CHOOSE i \in hits : \A j \in hits : i <= j

\* while (start < json.length() && std::isspace(json[start])) start++;
RECURSIVE skip_whitespace(_, _)
skip_whitespace(json, start) ==
    IF start <= Len(json) /\ isspace(json[start])
    THEN skip_whitespace(json, start + 1) ELSE start

\* while (end < json.length() && json[end] != ',' && != '}' && != ']') end++;
RECURSIVE scan_unquoted(_, _)
scan_unquoted(json, end) ==
    IF end <= Len(json) /\ json[end] \notin {",", "}", "]"}
    THEN scan_unquoted(json, end + 1) ELSE end

\* value.find_first_not_of(" \t\r\n"), 0 for npos
find_first_not_of(value) ==
    LET keep == {i \in 1..Len(value) : value[i] \notin TrimChars}
    IN IF keep = {} THEN 0 ELSE CHOOSE i \in keep : \A j \in keep : i <= j

\* value.find_last_not_of(" \t\r\n"), 0 for npos
find_last_not_of(value) ==
    LET keep == {i \in 1..Len(value) : value[i] \notin TrimChars}
    IN IF keep = {} THEN 0 ELSE CHOOSE i \in keep : \A j \in keep : i >= j

\* the two value.erase calls
trim(value) ==
    LET first == find_first_not_of(value)
        left == IF first = 0 THEN <<>> ELSE SubSeq(value, first, Len(value))
    IN SubSeq(left, 1, find_last_not_of(left))

\* extract_json_value
extract_json_value(json, key) ==
    LET search_key == <<"\"">> \o key \o <<"\"", ":">>
        found == find(json, search_key, 1)
        start == skip_whitespace(json, found + Len(search_key))
    IN IF found = 0 THEN <<>>
       ELSE IF start > Len(json) THEN <<>>
       ELSE IF json[start] = "\""
            THEN LET end == find(json, <<"\"">>, start + 1)
                 IN IF end = 0 THEN <<>> ELSE SubSeq(json, start + 1, end - 1)
            ELSE trim(SubSeq(json, start, scan_unquoted(json, start) - 1))

\* the key looked up and its marker in a blob
TheKey == <<"k">>
Marker == <<"\"", "k", "\"", ":">>

\* how a blob starts: nothing, the key without its colon, the marker, the
\* marker after another field
Heads == {<<>>, <<"\"", "k", "\"">>, Marker, <<"1", ",">> \o Marker}

Tails == UNION {[1..n -> Alphabet] : n \in 0..MaxTail}

ExtractIdle == [json |-> <<>>, key |-> TheKey, done |-> FALSE, value |-> <<>>]

NotParsed == [called |-> FALSE, ret |-> FALSE, ticks |-> <<>>, at |-> 0]

\* no response is being handled
DeliveryIdle ==
    /\ http_response = EmptyPayload /\ loop_symbol = <<"TCS">> /\ parsed = NotParsed
    /\ deliver_pc = "done" /\ tick_i = 1 /\ forwarded = <<>> /\ now_us = 0

\* no pipeline runs
PipeIdle ==
    /\ g_shutdown_requested = FALSE /\ ticks_received = 0 /\ ticks_written = 0
    /\ inside = {}

\* no request has been issued by the fetch loop
NoCycle ==
    [requested |-> <<>>, kinds |-> <<>>, ticks |-> <<>>, refused |-> FALSE,
     issued_total |-> 0, empties |-> 0, after_stop |-> 0]

CycleIdle == cycle = NoCycle

CalcIdle ==
    /\ extract = ExtractIdle /\ metrics_ = LatencyMetrics /\ DeliveryIdle /\ PipeIdle
    /\ CycleIdle

(***************************************************************************)
(* ExtractSpec: one call of extract_json_value on a blob.                  *)
(***************************************************************************)
ExtractInit ==
    /\ \E head \in Heads, tail \in Tails :
          extract = [ExtractIdle EXCEPT !.json = head \o tail]
    /\ metrics_ = LatencyMetrics
    /\ DeliveryIdle /\ PipeIdle /\ CycleIdle
    /\ \E bs \in {1} : writer = NewWriter(bs)
    /\ wlast = [op |-> "new", ret |-> FALSE, pre |-> NewWriter(0)]
    /\ ClientIdle

ExtractCall ==
    /\ ~extract.done
    /\ extract' = [extract EXCEPT !.done = TRUE,
                                  !.value = extract_json_value(extract.json, extract.key)]
    /\ UNCHANGED <<writerVars, clientVars, metrics_, deliveryVars, pipeVars, cycle>>

ExtractNext == ExtractCall

ExtractSpec == ExtractInit /\ [][ExtractNext]_vars

(***************************************************************************)
(* MetricsSpec: the metrics over any sequence of completed requests.       *)
(***************************************************************************)
MetricsInit ==
    /\ metrics_ = LatencyMetrics
    /\ extract = ExtractIdle
    /\ DeliveryIdle /\ PipeIdle /\ CycleIdle
    /\ \E bs \in {1} : writer = NewWriter(bs)
    /\ wlast = [op |-> "new", ret |-> FALSE, pre |-> NewWriter(0)]
    /\ ClientIdle

\* a request returns an empty response
EmptyResponse ==
    /\ metrics_.request_count < MaxRequests
    /\ \E latency \in 0..MaxLatency :
          metrics_' = update_metrics(metrics_, TRUE, latency)
    /\ UNCHANGED <<writerVars, clientVars, extract, deliveryVars, pipeVars, cycle>>

\* a request returns a non-empty response
NonEmptyResponse ==
    /\ metrics_.request_count < MaxRequests
    /\ \E latency \in 0..MaxLatency :
          metrics_' = update_metrics(metrics_, FALSE, latency)
    /\ UNCHANGED <<writerVars, clientVars, extract, deliveryVars, pipeVars, cycle>>

MetricsNext == EmptyResponse \/ NonEmptyResponse

MetricsSpec == MetricsInit /\ [][MetricsNext]_vars

(***************************************************************************)
(* DeliverySpec: one response handled by the fetch loop (lines 420-436)    *)
(* and the pipeline's callback (alpha_vantage_pipeline_app.cpp 101-130),   *)
(* which writes to a started ILPWriter.  The clock advances between the    *)
(* steps by any amount, or not at all.                                     *)
(***************************************************************************)
\* the last microsecond the clock reaches
MaxNowUs == 4
\* the batch size of the pipeline's Writer
DeliveryBatch == 3

DeliveryInit ==
    /\ http_response \in Payloads
    /\ loop_symbol \in ParseSymbols
    /\ parsed = NotParsed
    /\ deliver_pc = "response" /\ tick_i = 1 /\ forwarded = <<>> /\ now_us = 0
    /\ writer = ILPWriter_start(NewWriter(DeliveryBatch), "ok")
    /\ wlast = [op |-> "new", ret |-> FALSE, pre |-> NewWriter(0)]
    /\ ClientIdle
    /\ extract = ExtractIdle /\ metrics_ = LatencyMetrics /\ PipeIdle /\ CycleIdle

DeliveryFrame ==
    UNCHANGED <<http_response, loop_symbol, clientVars, extract, metrics_, pipeVars,
                cycle>>

\* if (!response.empty()) { if (parse_time_series_response(...)) ...
HandleResponse ==
    /\ deliver_pc = "response"
    /\ IF http_response.empty
       THEN /\ deliver_pc' = "done"
            /\ UNCHANGED parsed
       ELSE LET r == parse_time_series_response(http_response, loop_symbol, now_us) IN
            /\ parsed' = [called |-> TRUE, ret |-> r.ret, ticks |-> r.ticks,
                          at |-> now_us]
            /\ deliver_pc' = IF r.ret /\ r.ticks # <<>> THEN "stamp" ELSE "done"
    /\ UNCHANGED <<tick_i, forwarded, now_us, writerVars>>
    /\ DeliveryFrame

\* tick.receive_time_us = now
StampReceive ==
    /\ deliver_pc = "stamp"
    /\ parsed' = [parsed EXCEPT !.ticks[tick_i].receive_time_us = now_us]
    /\ deliver_pc' = "invoke"
    /\ UNCHANGED <<tick_i, forwarded, now_us, writerVars>>
    /\ DeliveryFrame

\* invoke_callback(tick): the pipeline's callback stamps the process time and
\* writes the tick
InvokeCallback ==
    /\ deliver_pc = "invoke"
    /\ \E net_ok \in BOOLEAN :
         LET processed_tick ==
                [parsed.ticks[tick_i] EXCEPT !.process_time_us = now_us] IN
         /\ writer' = write_tick(writer, processed_tick, net_ok)
         /\ wlast' = [op |-> "write_tick", ret |-> FALSE, pre |-> writer]
         /\ forwarded' = Append(forwarded, processed_tick)
    /\ tick_i' = tick_i + 1
    /\ deliver_pc' = IF tick_i = Len(parsed.ticks) THEN "done" ELSE "stamp"
    /\ UNCHANGED <<parsed, now_us>>
    /\ DeliveryFrame

\* time passes
ClockAdvance ==
    /\ deliver_pc # "done"
    /\ now_us < MaxNowUs
    /\ now_us' = now_us + 1
    /\ UNCHANGED <<parsed, deliver_pc, tick_i, forwarded, writerVars>>
    /\ DeliveryFrame

DeliveryNext == HandleResponse \/ StampReceive \/ InvokeCallback \/ ClockAdvance

DeliverySpec == DeliveryInit /\ [][DeliveryNext]_vars

(***************************************************************************)
(* WriterSpec: any sequence of calls on one ILPWriter.                     *)
(***************************************************************************)
WriterInit ==
    /\ \E bs \in 0..MaxBatch : writer = NewWriter(bs)
    /\ wlast = [op |-> "new", ret |-> FALSE, pre |-> NewWriter(0)]
    /\ ClientIdle
    /\ CalcIdle

WStart ==
    \E outcome \in StartOutcomes :
        /\ writer' = ILPWriter_start(writer, outcome)
        /\ wlast' = [op |-> "start", ret |-> ILPWriter_start_returns(writer, outcome),
                     pre |-> writer]
        /\ UNCHANGED <<clientVars, calcVars>>

WStop ==
    \E net_ok \in BOOLEAN :
        /\ writer' = ILPWriter_stop(writer, net_ok)
        /\ wlast' = [op |-> "stop", ret |-> FALSE, pre |-> writer]
        /\ UNCHANGED <<clientVars, calcVars>>

WWriteTick ==
    \E tick \in SampleTicks, net_ok \in BOOLEAN :
        /\ writer.accepted < MaxWrites
        /\ writer' = write_tick(writer, tick, net_ok)
        /\ wlast' = [op |-> "write_tick", ret |-> FALSE, pre |-> writer]
        /\ UNCHANGED <<clientVars, calcVars>>

WFlush ==
    \E net_ok \in BOOLEAN :
        /\ writer' = flush(writer, net_ok)
        /\ wlast' = [op |-> "flush", ret |-> FALSE, pre |-> writer]
        /\ UNCHANGED <<clientVars, calcVars>>

WriterNext == WStart \/ WStop \/ WWriteTick \/ WFlush

WriterSpec == WriterInit /\ [][WriterNext]_vars

(***************************************************************************)
(* AlphaVantageClient: start() and stop(), called by the foreground.       *)
(* The foreground is one thread (the orchestrator's main): its calls do    *)
(* not overlap, and while stop() waits in join() it makes no other call.   *)
(***************************************************************************)
Client == ClientSnapshot(running_, stop_requested_, fetch_thread_, pc, crashed)

\* mutant of start: the running flag is not looked at
start_unguarded(c, key, syms) ==
    IF key = "" \/ syms = <<>> THEN [ret |-> FALSE, c |-> c]
    ELSE LET flagged == [c EXCEPT !.stop_requested_ = FALSE, !.running_ = TRUE]
         IN [ret |-> TRUE,
             c |-> IF c.fetch_thread_ = "joinable"
                   THEN [flagged EXCEPT !.crashed = TRUE]
                   ELSE [flagged EXCEPT !.fetch_thread_ = "joinable",
                                        !.pc = "loop_test"]]

\* mutant of start: an empty symbol list is not refused
start_without_symbols(c, key, syms) ==
    IF c.running_ THEN [ret |-> FALSE, c |-> c]
    ELSE IF key = "" THEN [ret |-> FALSE, c |-> c]
    ELSE LET flagged == [c EXCEPT !.stop_requested_ = FALSE, !.running_ = TRUE]
         IN [ret |-> TRUE,
             c |-> IF c.fetch_thread_ = "joinable"
                   THEN [flagged EXCEPT !.crashed = TRUE]
                   ELSE [flagged EXCEPT !.fetch_thread_ = "joinable",
                                        !.pc = "loop_test"]]

\* AlphaVantageClient::start.  Assigning a new std::thread to fetch_thread_
\* while it is joinable calls std::terminate.
start(c, key, syms) ==
    IF c.running_ THEN [ret |-> FALSE, c |-> c]
    ELSE IF key = "" THEN [ret |-> FALSE, c |-> c]
    ELSE IF syms = <<>> THEN [ret |-> FALSE, c |-> c]
    ELSE LET flagged == [c EXCEPT !.stop_requested_ = FALSE, !.running_ = TRUE]
         IN [ret |-> TRUE,
             c |-> IF c.fetch_thread_ = "joinable"
                   THEN [flagged EXCEPT !.crashed = TRUE]
                   ELSE [flagged EXCEPT !.fetch_thread_ = "joinable",
                                        !.pc = "loop_test"]]

\* AlphaVantageClient::stop up to the join: the early return, or the two stores.
\* The stores are one step: only the fetch loop runs beside them, and it reads
\* stop_requested_ alone.
stop_begin(c) ==
    IF ~c.running_ THEN c
    ELSE [c EXCEPT !.stop_requested_ = TRUE, !.running_ = FALSE]

\* mutant of join_returns: stop() does not wait for the fetch loop
join_returns_at_once(c) == TRUE

\* std::thread::join returns once the thread function has returned
join_returns(c) == c.pc = "done"

\* the rest of stop(): the thread is joined
stop_join(c) ==
    [c EXCEPT !.fetch_thread_ = "empty",
              !.pc = IF c.pc = "done" THEN "none" ELSE @]

SetClient(c) ==
    /\ running_' = c.running_
    /\ stop_requested_' = c.stop_requested_
    /\ fetch_thread_' = c.fetch_thread_
    /\ pc' = c.pc
    /\ crashed' = c.crashed

\* the members neither start() nor stop() writes
CallFrame ==
    UNCHANGED <<api_key_, symbols_, request_times_, sym_i, ticks_left, clock,
                issued, allow_log, writerVars, calcVars>>

ClientStart ==
    /\ fg = "idle" /\ ~crashed
    /\ LET r == start(Client, api_key_, symbols_) IN
         /\ SetClient(r.c)
         /\ clast' = [op |-> "start", ret |-> r.ret]
    /\ UNCHANGED fg
    /\ CallFrame

ClientStopBegin ==
    /\ fg = "idle" /\ ~crashed
    /\ LET c == stop_begin(Client) IN
         /\ SetClient(c)
         /\ fg' = IF running_ /\ c.fetch_thread_ = "joinable" THEN "join" ELSE "idle"
         /\ clast' = [op |-> "stop", ret |-> running_]
    /\ CallFrame

ClientStopJoin ==
    /\ fg = "join" /\ ~crashed
    /\ join_returns(Client)
    /\ SetClient(stop_join(Client))
    /\ clast' = [op |-> "stop_return", ret |-> TRUE]
    /\ fg' = "idle"
    /\ CallFrame

(***************************************************************************)
(* AlphaVantageClient::data_fetch_loop, one action per step of the thread. *)
(***************************************************************************)
\* what a step of the fetch loop leaves alone besides the loop's own state
LoopFrame ==
    UNCHANGED <<api_key_, symbols_, running_, stop_requested_, fetch_thread_, fg,
                crashed, clock, clast, writerVars, calcVars>>

\* mutant of loop_continues: while (true)
loop_continues_always(stop) == TRUE

\* the outer loop's test: while (!stop_requested_.load())
loop_continues(stop) == ~stop

LoopTest ==
    /\ pc = "loop_test" /\ ~crashed
    /\ IF loop_continues(stop_requested_)
       THEN /\ sym_i' = 1
            /\ pc' = "for_test"
       ELSE /\ pc' = "done"
            /\ UNCHANGED sym_i
    /\ UNCHANGED <<request_times_, ticks_left, issued, allow_log>>
    /\ LoopFrame

\* mutant of symbol_loop_ends: the for body without its stop check
symbol_loop_ends_at_last(i, n, stop) == i > n

\* for (const auto &symbol : symbols_) { if (stop_requested_.load()) break;
\* - whether the for loop is left before symbol i of n
symbol_loop_ends(i, n, stop) == i > n \/ stop

\* the for loop's test and the stop check at the top of its body
ForTest ==
    /\ pc = "for_test" /\ ~crashed
    /\ IF symbol_loop_ends(sym_i, Len(symbols_), stop_requested_)
       THEN /\ pc' = "wait_test"
            /\ sym_i' = 0
       ELSE /\ pc' = "rate_check"
            /\ UNCHANGED sym_i
    /\ UNCHANGED <<request_times_, ticks_left, issued, allow_log>>
    /\ LoopFrame

\* the clock at the latest MAX_REQUESTS_PER_DAY + 1 requests issued
Remember(log, now) ==
    LET all == Append(log, now) IN
    IF Len(all) > MAX_REQUESTS_PER_DAY + 1 THEN Tail(all) ELSE all

\* can_make_request; when allowed the request is issued, else the for loop
\* is left
RateCheck ==
    /\ pc = "rate_check" /\ ~crashed
    /\ LET allowed == can_make_request(request_times_, clock) IN
         /\ allow_log' = [called |-> TRUE, ret |-> allowed, at |-> clock]
         /\ IF allowed
            THEN /\ pc' = "http"
                 /\ issued' = Remember(issued, clock)
                 /\ UNCHANGED sym_i
            ELSE /\ pc' = "wait_test"
                 /\ sym_i' = 0
                 /\ UNCHANGED issued
    /\ UNCHANGED <<request_times_, ticks_left>>
    /\ LoopFrame

\* mutant of after_request: an empty response is not recorded
after_request_nonempty(times, now, response) ==
    IF response = "empty" THEN times ELSE record_request(times, now)

\* the limiter after make_http_request returned: record_request(), whatever
\* the response
after_request(times, now, response) == record_request(times, now)

\* make_http_request returns; the request is recorded and the response parsed
HttpReturn ==
    /\ pc = "http" /\ ~crashed
    /\ \E response \in Responses :
         /\ request_times_' = after_request(request_times_, clock, response)
         /\ ticks_left' = TicksOf(response)
         /\ pc' = IF TicksOf(response) > 0 THEN "callback" ELSE "pace"
    /\ allow_log' = NoAllow
    /\ UNCHANGED <<sym_i, issued>>
    /\ LoopFrame

\* invoke_callback for the next tick of the response
Callback ==
    /\ pc = "callback" /\ ~crashed
    /\ ticks_left' = ticks_left - 1
    /\ pc' = IF ticks_left = 1 THEN "pace" ELSE "callback"
    /\ UNCHANGED <<request_times_, sym_i, issued, allow_log>>
    /\ LoopFrame

\* sleep_for(1 s) at the end of the for body, then the next symbol
Pace ==
    /\ pc = "pace" /\ ~crashed
    /\ sym_i' = sym_i + 1
    /\ pc' = "for_test"
    /\ UNCHANGED <<request_times_, ticks_left, issued, allow_log>>
    /\ LoopFrame

\* The test of the inter-cycle wait.  steady_clock runs in seconds, far below
\* the hours of the model's clock: whether polling_interval_ has elapsed is an
\* input.
WaitTest ==
    /\ pc = "wait_test" /\ ~crashed
    /\ \E elapsed \in BOOLEAN :
         pc' = IF ~stop_requested_ /\ ~elapsed THEN "wait_sleep" ELSE "loop_test"
    /\ allow_log' = NoAllow
    /\ UNCHANGED <<request_times_, sym_i, ticks_left, issued>>
    /\ LoopFrame

\* sleep_for(1 s) inside the inter-cycle wait
WaitSleep ==
    /\ pc = "wait_sleep" /\ ~crashed
    /\ pc' = "wait_test"
    /\ UNCHANGED <<request_times_, sym_i, ticks_left, issued, allow_log>>
    /\ LoopFrame

FetchLoop ==
    \/ LoopTest \/ ForTest \/ RateCheck \/ HttpReturn \/ Callback \/ Pace
    \/ WaitTest \/ WaitSleep

\* time passes
Tick ==
    /\ ~crashed
    /\ clock + ClockStep <= MaxClock
    /\ clock' = clock + ClockStep
    /\ UNCHANGED <<api_key_, symbols_, running_, stop_requested_, fetch_thread_,
                   request_times_, pc, sym_i, ticks_left, fg, crashed, issued,
                   allow_log, clast, writerVars, calcVars>>

(***************************************************************************)
(* Spec: one AlphaVantageClient, its foreground caller, its fetch loop and *)
(* the clock.                                                              *)
(***************************************************************************)
Init ==
    /\ \E key \in {"", "demo"}, syms \in {<<>>, DefaultSymbols} :
            NewClient(key, syms)
    /\ writer = NewWriter(1)
    /\ wlast = [op |-> "new", ret |-> FALSE, pre |-> NewWriter(0)]
    /\ CalcIdle

Next ==
    \/ ClientStart
    \/ ClientStopBegin
    \/ ClientStopJoin
    \/ LoopTest
    \/ ForTest
    \/ RateCheck
    \/ HttpReturn
    \/ Callback
    \/ Pace
    \/ WaitTest
    \/ WaitSleep
    \/ Tick

Spec == Init /\ [][Next]_vars

\* the scheduler runs the fetch loop and the foreground; requests, callbacks
\* and sleeps return
FairSpec ==
    /\ Spec
    /\ WF_vars(FetchLoop)
    /\ WF_vars(ClientStopJoin)

(***************************************************************************)
(* PipelineSpec: the orchestrator (alpha_vantage_pipeline_app.cpp) from    *)
(* the point where the Writer and the client are both started: the main    *)
(* thread in its statistics loop and then in the cleanup, the fetch loop   *)
(* thread invoking the callback, and the shutdown signal.  A Writer        *)
(* operation takes two steps, its entry and its return, so that two        *)
(* threads can be seen inside the Writer at once.  The rate limiter is a   *)
(* yes or no here, and a wait of the loop is a stuttering step.            *)
(***************************************************************************)
\* number of ticks the source delivers in one run
MaxDelivered == 4

\* mutant of cleanup_next: the Writer is stopped before the client
cleanup_writer_first(at) ==
    CASE at = "main_loop" -> "writer_stop"
      [] at = "writer_stop" -> "client_stop"
      [] at = "client_stop" -> "final"

\* the order of main's cleanup: av_client->stop(); ilp_writer->stop();
cleanup_next(at) ==
    CASE at = "main_loop" -> "client_stop"
      [] at = "client_stop" -> "writer_stop"
      [] at = "writer_stop" -> "final"

PipelineInit ==
    /\ \E bs \in 0..MaxBatch :
          writer = ILPWriter_start(NewWriter(bs), "ok")
    /\ wlast = [op |-> "new", ret |-> FALSE, pre |-> NewWriter(0)]
    /\ api_key_ = "demo" /\ symbols_ = DefaultSymbols
    /\ LET c == start(ClientSnapshot(FALSE, FALSE, "empty", "none", FALSE),
                      "demo", DefaultSymbols).c IN
         /\ running_ = c.running_ /\ stop_requested_ = c.stop_requested_
         /\ fetch_thread_ = c.fetch_thread_ /\ pc = c.pc /\ crashed = c.crashed
    /\ request_times_ = <<>> /\ sym_i = 0 /\ ticks_left = 0
    /\ fg = "main_loop"
    /\ clock = 0 /\ issued = <<>> /\ allow_log = NoAllow
    /\ clast = [op |-> "start", ret |-> TRUE]
    /\ PipeIdle
    /\ extract = ExtractIdle /\ metrics_ = LatencyMetrics /\ DeliveryIdle
    /\ CycleIdle

\* what no step of the pipeline changes
PipeFrame ==
    UNCHANGED <<api_key_, symbols_, request_times_, clock, issued, allow_log,
                clast, extract, metrics_, deliveryVars, cycle>>

\* what a step of the main thread leaves alone
MainFrame ==
    UNCHANGED <<sym_i, ticks_left, ticks_received, ticks_written>> /\ PipeFrame

\* what a step of the fetch loop leaves alone
FetchFrame ==
    /\ UNCHANGED <<running_, stop_requested_, fetch_thread_, crashed, fg,
                   g_shutdown_requested>>
    /\ PipeFrame

\* signal_handler
Signal ==
    /\ ~g_shutdown_requested
    /\ g_shutdown_requested' = TRUE
    /\ UNCHANGED <<running_, stop_requested_, fetch_thread_, pc, crashed, fg,
                   inside, writerVars>>
    /\ MainFrame

\* the test of the main loop passes and main sleeps 5 s
MainLoopBody ==
    /\ fg = "main_loop"
    /\ ~g_shutdown_requested /\ running_
    /\ fg' = "main_body"
    /\ UNCHANGED <<running_, stop_requested_, fetch_thread_, pc, crashed,
                   g_shutdown_requested, inside, writerVars>>
    /\ MainFrame

\* after the sleep: 30 s have passed since the last report or not (an input);
\* if so main takes ilp_writer->stats() and starts loading its counters
MainStatsBegin ==
    /\ fg = "main_body"
    /\ \E due \in BOOLEAN : fg' = IF due THEN "stats" ELSE "main_loop"
    /\ UNCHANGED <<running_, stop_requested_, fetch_thread_, pc, crashed,
                   g_shutdown_requested, inside, writerVars>>
    /\ MainFrame

\* lines_sent, batches_sent and errors were loaded and printed
MainStatsEnd ==
    /\ fg = "stats"
    /\ fg' = "main_loop"
    /\ UNCHANGED <<running_, stop_requested_, fetch_thread_, pc, crashed,
                   g_shutdown_requested, inside, writerVars>>
    /\ MainFrame

\* while (!g_shutdown_requested.load() && av_client->is_running()) is left
MainLoopExit ==
    /\ fg = "main_loop"
    /\ g_shutdown_requested \/ ~running_
    /\ fg' = cleanup_next("main_loop")
    /\ UNCHANGED <<running_, stop_requested_, fetch_thread_, pc, crashed,
                   g_shutdown_requested, inside, writerVars>>
    /\ MainFrame

\* av_client->stop() up to the join
MainClientStop ==
    /\ fg = "client_stop"
    /\ LET c == stop_begin(Client) IN
         /\ SetClient(c)
         /\ fg' = IF running_ /\ c.fetch_thread_ = "joinable"
                  THEN "join" ELSE cleanup_next("client_stop")
    /\ UNCHANGED <<g_shutdown_requested, inside, writerVars>>
    /\ MainFrame

\* fetch_thread_.join() returns
MainClientJoin ==
    /\ fg = "join"
    /\ join_returns(Client)
    /\ SetClient(stop_join(Client))
    /\ fg' = cleanup_next("client_stop")
    /\ UNCHANGED <<g_shutdown_requested, inside, writerVars>>
    /\ MainFrame

\* ilp_writer->stop() is entered
MainWriterStopEnter ==
    /\ fg = "writer_stop"
    /\ inside' = inside \cup {"main"}
    /\ fg' = "in_writer_stop"
    /\ UNCHANGED <<running_, stop_requested_, fetch_thread_, pc, crashed,
                   g_shutdown_requested, writerVars>>
    /\ MainFrame

\* ilp_writer->stop() returns
MainWriterStopReturn ==
    /\ fg = "in_writer_stop"
    /\ \E net_ok \in BOOLEAN :
         /\ writer' = ILPWriter_stop(writer, net_ok)
         /\ wlast' = [op |-> "stop", ret |-> FALSE, pre |-> writer]
    /\ inside' = inside \ {"main"}
    /\ fg' = cleanup_next("writer_stop")
    /\ UNCHANGED <<running_, stop_requested_, fetch_thread_, pc, crashed,
                   g_shutdown_requested>>
    /\ MainFrame

\* while (!stop_requested_.load())
PipeLoopTest ==
    /\ pc = "loop_test"
    /\ IF loop_continues(stop_requested_)
       THEN pc' = "for_test" /\ sym_i' = 1
       ELSE pc' = "done" /\ UNCHANGED sym_i
    /\ UNCHANGED <<ticks_left, ticks_received, ticks_written, inside, writerVars>>
    /\ FetchFrame

\* the for loop's test and the stop check at the top of its body
PipeForTest ==
    /\ pc = "for_test"
    /\ IF sym_i > Len(symbols_) \/ stop_requested_
       THEN pc' = "wait_test" /\ sym_i' = 0
       ELSE pc' = "http" /\ UNCHANGED sym_i
    /\ UNCHANGED <<ticks_left, ticks_received, ticks_written, inside, writerVars>>
    /\ FetchFrame

\* can_make_request, the request and the parse of its response
PipeRequest ==
    /\ pc = "http"
    /\ \E allowed \in BOOLEAN, got \in Responses :
         /\ ticks_received + TicksOf(got) <= MaxDelivered
         /\ IF ~allowed
            THEN pc' = "wait_test" /\ sym_i' = 0 /\ UNCHANGED ticks_left
            ELSE /\ ticks_left' = TicksOf(got)
                 /\ pc' = IF TicksOf(got) > 0 THEN "callback" ELSE "pace"
                 /\ UNCHANGED sym_i
    /\ UNCHANGED <<ticks_received, ticks_written, inside, writerVars>>
    /\ FetchFrame

\* invoke_callback: the callback counts the tick and enters write_tick
PipeCallbackEnter ==
    /\ pc = "callback"
    /\ ticks_received' = ticks_received + 1
    /\ inside' = inside \cup {"fetch"}
    /\ pc' = "write_tick"
    /\ UNCHANGED <<sym_i, ticks_left, ticks_written, writerVars>>
    /\ FetchFrame

\* mutant of count_written: a tick whose batch failed to send is not counted
count_written_if_sent(before, after, written) ==
    IF after.stats_.errors > before.stats_.errors THEN written ELSE written + 1

\* ticks_written++ after ilp_writer->write_tick(processed_tick), whatever the
\* Writer did
count_written(before, after, written) == written + 1

\* write_tick returns to the callback, the callback to the loop
PipeCallbackReturn ==
    /\ pc = "write_tick"
    /\ \E net_ok \in BOOLEAN :
         /\ writer' = write_tick(writer,
                                 TickData(ticks_received, "RELIANCE", "BSE", 250050,
                                          10, "B"),
                                 net_ok)
         /\ wlast' = [op |-> "write_tick", ret |-> FALSE, pre |-> writer]
         /\ ticks_written' = count_written(writer, writer', ticks_written)
    /\ inside' = inside \ {"fetch"}
    /\ ticks_left' = ticks_left - 1
    /\ pc' = IF ticks_left = 1 THEN "pace" ELSE "callback"
    /\ UNCHANGED <<sym_i, ticks_received>>
    /\ FetchFrame

\* sleep_for(1 s) at the end of the for body, then the next symbol
PipePace ==
    /\ pc = "pace"
    /\ sym_i' = sym_i + 1
    /\ pc' = "for_test"
    /\ UNCHANGED <<ticks_left, ticks_received, ticks_written, inside, writerVars>>
    /\ FetchFrame

\* the wait for the next polling cycle ends: the interval elapsed or stop was
\* requested
PipeWait ==
    /\ pc = "wait_test"
    /\ pc' = "loop_test"
    /\ UNCHANGED <<sym_i, ticks_left, ticks_received, ticks_written, inside,
                   writerVars>>
    /\ FetchFrame

PipelineNext ==
    \/ Signal
    \/ MainLoopBody
    \/ MainStatsBegin
    \/ MainStatsEnd
    \/ MainLoopExit
    \/ MainClientStop
    \/ MainClientJoin
    \/ MainWriterStopEnter
    \/ MainWriterStopReturn
    \/ PipeLoopTest
    \/ PipeForTest
    \/ PipeRequest
    \/ PipeCallbackEnter
    \/ PipeCallbackReturn
    \/ PipePace
    \/ PipeWait

PipelineSpec == PipelineInit /\ [][PipelineNext]_vars

(***************************************************************************)
(* Claims about the Writer (checked under WriterSpec).                     *)
(***************************************************************************)
\* the call recorded in wlast made a send attempt (a flush of a non-empty batch)
WFlushed == Len(writer.attempts) = Len(wlast.pre.attempts) + 1

WLastAttempt == writer.attempts[Len(writer.attempts)]

\* the lines the flushed batch held: the pending ones, plus the one pushed
WFlushedLen ==
    Len(wlast.pre.current_batch_) + (IF wlast.op = "write_tick" THEN 1 ELSE 0)

\* C1: on a running Writer with batch size B >= 1, write_tick flushes exactly
\* when its push brings the pending count to B; after any flush, successful or
\* failed, the pending count is 0; so the pending count is below B whenever
\* write_tick returns.
C1_FlushExactlyAtBatchSize ==
    /\ (wlast.op = "write_tick" /\ wlast.pre.running_ /\ writer.batch_size >= 1) =>
          /\ WFlushed <=> (Len(wlast.pre.current_batch_) + 1 = writer.batch_size)
          /\ Len(writer.current_batch_) < writer.batch_size
          /\ ~WFlushed => Len(writer.current_batch_) = Len(wlast.pre.current_batch_) + 1
    /\ (wlast.op \in {"write_tick", "flush", "stop"} /\ WFlushed) =>
          Len(writer.current_batch_) = 0

\* C1 witness: a write_tick filled a batch of size 2 or more, the send failed
C1_Witness ==
    /\ wlast.op = "write_tick" /\ wlast.pre.running_ /\ writer.batch_size >= 2
    /\ WFlushed /\ ~WLastAttempt.ok
    /\ writer.current_batch_ = <<>>

\* C2: a flush of a non-empty batch of k lines adds k to lines_sent and 1 to
\* batches_sent and leaves errors alone when the send succeeds; when it fails
\* it adds 1 to errors and leaves lines_sent and batches_sent alone.
C2_CountersOnFlush ==
    WFlushed =>
        LET old == wlast.pre.stats_
            new == writer.stats_
        IN IF WLastAttempt.ok
           THEN /\ new.lines_sent = old.lines_sent + WFlushedLen
                /\ new.batches_sent = old.batches_sent + 1
                /\ new.errors = old.errors
           ELSE /\ new.errors = old.errors + 1
                /\ new.lines_sent = old.lines_sent
                /\ new.batches_sent = old.batches_sent

\* C2 witness: a successful flush of two lines after an earlier failed one
C2_Witness ==
    /\ WFlushed /\ WLastAttempt.ok /\ WFlushedLen = 2
    /\ writer.stats_.errors = 1 /\ writer.stats_.lines_sent = 2

\* the numbers of all writes handed to send(), attempt after attempt
RECURSIVE AttemptedIds(_)
AttemptedIds(as) ==
    IF as = <<>> THEN <<>> ELSE Head(as).ids \o AttemptedIds(Tail(as))

NoDuplicates(seq) ==
    \A i, j \in 1..Len(seq) : i # j => seq[i] # seq[j]

\* C3: delivery is at most once: every accepted write is in at most one send
\* attempt, a write still pending has been in none, a failed send drops its
\* batch, and a failed send inside write_tick or flush leaves the running flag
\* and the socket as they were.
C3_AtMostOnce ==
    /\ NoDuplicates(AttemptedIds(writer.attempts) \o writer.pending_ids)
    /\ (WFlushed /\ ~WLastAttempt.ok) =>
          /\ writer.current_batch_ = <<>>
          /\ wlast.op \in {"write_tick", "flush"} =>
                /\ writer.running_ = wlast.pre.running_
                /\ writer.socket_fd_ = wlast.pre.socket_fd_
                /\ writer.fd_open = wlast.pre.fd_open

\* C3 witness: two sends in a row failed and the Writer is still running with
\* its socket, the dropped writes gone for good
C3_Witness ==
    /\ Len(writer.attempts) >= 2
    /\ ~writer.attempts[Len(writer.attempts)].ok
    /\ ~writer.attempts[Len(writer.attempts) - 1].ok
    /\ wlast.op \in {"write_tick", "flush"} /\ WFlushed
    /\ writer.running_ /\ writer.socket_fd_ >= 0 /\ writer.fd_open
    /\ writer.current_batch_ = <<>> /\ writer.stats_.lines_sent = 0

\* C17: a start() that fails (socket, resolution or connect) returns false,
\* leaves the Writer not running with no open socket, and leaves every member
\* of the Writer as it was before the call.
C17_FailedStartNoPartialState ==
    (wlast.op = "start" /\ ~wlast.pre.running_ /\ ~writer.running_) =>
        /\ wlast.ret = FALSE
        /\ ~writer.fd_open
        /\ writer = wlast.pre

\* what does hold of a failed start(): false is returned, the descriptor is
\* closed and nothing but socket_fd_ differs
C17_FailedStartReleasesSocket ==
    (wlast.op = "start" /\ ~wlast.pre.running_ /\ ~writer.running_) =>
        /\ wlast.ret = FALSE
        /\ ~writer.fd_open
        /\ [writer EXCEPT !.socket_fd_ = -1] = [wlast.pre EXCEPT !.socket_fd_ = -1]

\* C18: stop() on a running Writer makes one send attempt with the remaining
\* batch if there is one, closes the socket and leaves the Writer not running
\* with an empty batch; stop() on a stopped Writer changes nothing.
C18_StopFlushesAndCloses ==
    wlast.op = "stop" =>
        IF wlast.pre.running_
        THEN /\ ~writer.running_ /\ writer.socket_fd_ = -1 /\ ~writer.fd_open
             /\ writer.current_batch_ = <<>>
             /\ IF wlast.pre.current_batch_ = <<>>
                THEN writer.attempts = wlast.pre.attempts
                ELSE /\ Len(writer.attempts) = Len(wlast.pre.attempts) + 1
                     /\ WLastAttempt.ids = wlast.pre.pending_ids
             /\ writer.stats_.lines_sent + writer.stats_.errors
                  > wlast.pre.stats_.lines_sent + wlast.pre.stats_.errors
                  <=> wlast.pre.current_batch_ # <<>>
        ELSE writer = wlast.pre

\* C18 witness: a second stop() after a stop() that flushed a partial batch
C18_Witness ==
    /\ wlast.op = "stop" /\ ~wlast.pre.running_
    /\ Len(writer.attempts) = 1 /\ Len(writer.attempts[1].ids) = 2
    /\ writer.batch_size = 3 /\ writer.accepted = 2

\* C18 first case: the stop() that flushed the partial batch
C18_FlushingStopReached ==
    /\ wlast.op = "stop" /\ wlast.pre.running_
    /\ Len(wlast.pre.current_batch_) = 2 /\ WFlushed

\* C19: write_tick on a Writer that is not running changes nothing; flush on a
\* Writer that is not running or has an empty batch makes no send attempt and
\* changes neither the batch nor the counters.
C19_NoOpCalls ==
    /\ (wlast.op = "write_tick" /\ ~wlast.pre.running_) => writer = wlast.pre
    /\ (wlast.op = "flush"
          /\ (~wlast.pre.running_ \/ wlast.pre.current_batch_ = <<>>)) =>
            /\ writer.attempts = wlast.pre.attempts
            /\ writer.current_batch_ = wlast.pre.current_batch_
            /\ writer.stats_ = wlast.pre.stats_

\* C19 witness: a write_tick on a stopped Writer that had sent a batch before
C19_Witness ==
    /\ wlast.op = "write_tick" /\ ~wlast.pre.running_
    /\ writer.stats_.batches_sent = 1 /\ writer.accepted = 2

\* C19 second case: a flush of an empty batch on a running Writer
C19_EmptyFlushReached ==
    /\ wlast.op = "flush" /\ wlast.pre.running_
    /\ wlast.pre.current_batch_ = <<>> /\ writer.stats_.errors = 1

(***************************************************************************)
(* Claims about the rate limiter (checked under Spec).                     *)
(***************************************************************************)
\* C4: no rolling 24-hour window holds more than the daily quota of issued
\* requests, whatever start()/stop() restarts happen: the request issued
\* MAX_REQUESTS_PER_DAY requests after another one is issued at least 24 hours
\* after it.  (issued holds the latest MAX_REQUESTS_PER_DAY + 1 issue times, so
\* every run of quota + 1 consecutive requests is looked at.)
C4_QuotaPerWindow ==
    \A i, j \in DOMAIN issued :
        j >= i + MAX_REQUESTS_PER_DAY => issued[j] - issued[i] >= HOURS_24

\* C4 witness: a request beyond the quota was issued, after a restart of the
\* client, once the window had rolled on
C4_Witness ==
    /\ Len(issued) = MAX_REQUESTS_PER_DAY + 1
    /\ pc = "http"
    /\ clast = [op |-> "start", ret |-> TRUE]
    /\ issued[Len(issued)] - issued[1] = HOURS_24

\* time points of the sequence less than 24 hours old at time now
YoungerThanADay(times, now) ==
    {i \in DOMAIN times : now - times[i] < HOURS_24}

\* C5: with quota N and N recorded requests retained, allow() returns false as
\* long as the oldest of them is less than 24 hours old and true once it has
\* aged 24 hours.
C5_RefusedUntilOldestAges ==
    (allow_log.called /\ Len(request_times_) = MAX_REQUESTS_PER_DAY) =>
        (allow_log.ret <=> allow_log.at - request_times_[1] >= HOURS_24)

\* C5 witness: the quota was used up, and allow() returns true at the moment
\* the oldest request is 24 hours old while later ones are not
C5_Witness ==
    /\ allow_log.called /\ allow_log.ret
    /\ Len(request_times_) = MAX_REQUESTS_PER_DAY
    /\ allow_log.at - request_times_[1] = HOURS_24
    /\ allow_log.at - request_times_[Len(request_times_)] < HOURS_24

\* C5 second case: the quota was used up and allow() returned false
C5_RefusedReached ==
    /\ allow_log.called /\ ~allow_log.ret
    /\ Len(request_times_) = MAX_REQUESTS_PER_DAY

\* C6: at most MAX_REQUESTS_PER_DAY time points are ever retained, and allow()
\* returns true iff fewer than MAX_REQUESTS_PER_DAY retained time points are
\* less than 24 hours old.
C6_RetainedWithinQuota ==
    /\ Len(request_times_) <= MAX_REQUESTS_PER_DAY
    /\ allow_log.called =>
          (allow_log.ret <=>
             Cardinality(YoungerThanADay(request_times_, allow_log.at))
                < MAX_REQUESTS_PER_DAY)

\* C6 witness: allow() returned true with a full sequence of retained time
\* points, one of them aged out
C6_Witness ==
    /\ allow_log.called /\ allow_log.ret
    /\ Len(request_times_) = MAX_REQUESTS_PER_DAY
    /\ Cardinality(YoungerThanADay(request_times_, allow_log.at))
          = MAX_REQUESTS_PER_DAY - 1

(***************************************************************************)
(* Claims about the client's life cycle (checked under Spec and FairSpec). *)
(***************************************************************************)
StartFails == running_ \/ api_key_ = "" \/ symbols_ = <<>>

\* C7: start() returns false and changes neither the running flag, the stop
\* flag nor the fetch thread if the client is running, the credential is empty
\* or there is no symbol; otherwise it returns true, the client is running and
\* one fetch loop is spawned where none was.
C7_StartContract ==
    [][ClientStart =>
          IF StartFails
          THEN /\ clast'.ret = FALSE
               /\ UNCHANGED <<running_, stop_requested_, fetch_thread_, pc, crashed>>
          ELSE /\ clast'.ret = TRUE
               /\ running_' /\ ~stop_requested_'
               /\ pc = "none" /\ pc' = "loop_test"
               /\ fetch_thread_ = "empty" /\ fetch_thread_' = "joinable"
               /\ ~crashed']_vars

\* C7 witness: a restart succeeded after a stop() (the stop flag was set)
C7_Witness ==
    /\ clast = [op |-> "start", ret |-> TRUE]
    /\ running_ /\ ~stop_requested_ /\ pc = "loop_test"
    /\ Len(issued) > 0

\* C7 second case: start() on a running client returned false
C7_RefusedReached ==
    /\ clast = [op |-> "start", ret |-> FALSE]
    /\ running_ /\ pc = "callback"

Stopped == fg = "idle" /\ ~running_

\* C8: stop() on a stopped client changes nothing; when stop() has returned
\* the fetch loop has terminated, so until a later successful start() no loop
\* executes: no request is issued and no callback invoked.
C8_StopContract ==
    /\ [](Stopped => pc = "none" /\ fetch_thread_ = "empty")
    /\ [][(ClientStopBegin /\ ~running_) =>
            UNCHANGED <<running_, stop_requested_, fetch_thread_, pc, fg, crashed>>]_vars
    /\ [][(Stopped /\ Stopped') =>
            UNCHANGED <<issued, ticks_left, request_times_, pc>>]_vars

\* C8 witness: stop() returned on a client that had issued requests
C8_Witness ==
    /\ clast = [op |-> "stop_return", ret |-> TRUE]
    /\ Stopped /\ pc = "none" /\ Len(issued) > 0

Lifecycle ==
    IF running_ THEN "Running"
    ELSE IF fg = "join" THEN "StopRequested"
    ELSE "Stopped"

C10_StopReturns ==
    (fg = "join") ~> (fg = "idle" /\ pc = "none")

\* C10 witness: stop() waits while a request is in flight
C10_Witness ==
    /\ fg = "join" /\ stop_requested_ /\ pc = "http"


(***************************************************************************)
(* Claims about the extractor (ExtractSpec).                               *)
(***************************************************************************)
\* s without the whitespace at its start
RECURSIVE StripLeft(_)
StripLeft(s) == IF s # <<>> /\ isspace(Head(s)) THEN StripLeft(Tail(s)) ELSE s

\* s without the whitespace at its end
RECURSIVE StripRight(_)
StripRight(s) ==
    IF s # <<>> /\ isspace(s[Len(s)]) THEN StripRight(SubSeq(s, 1, Len(s) - 1)) ELSE s

\* the part of s before the first character of the set stops (all of s if none)
RECURSIVE Before(_, _)
Before(s, stops) ==
    IF s = <<>> \/ Head(s) \in stops THEN <<>> ELSE <<Head(s)>> \o Before(Tail(s), stops)

\* what follows the first marker of the key in the blob, leading whitespace
\* dropped; <<>> also when the key is absent
ValueText ==
    LET at == find(extract.json, Marker, 1)
    IN IF at = 0 THEN <<>>
       ELSE StripLeft(SubSeq(extract.json, at + Len(Marker), Len(extract.json)))

\* the result the contract describes for the blob
ExpectedValue ==
    IF ValueText = <<>> THEN <<>>
    ELSE IF Head(ValueText) = "\""
         THEN IF "\"" \in {Tail(ValueText)[i] : i \in 1..(Len(ValueText) - 1)}
              THEN Before(Tail(ValueText), {"\""}) ELSE <<>>
         ELSE StripRight(Before(ValueText, {",", "}", "]"}))

\* C20: the extractor returns the empty string when the key is absent or the
\* blob ends before the value or before the closing quote; otherwise the text
\* between the quotes, or the whitespace-trimmed text up to the next comma,
\* brace or bracket.
C20_ExtractorContract == extract.done => extract.value = ExpectedValue

\* what does hold: the contract on blobs whose only whitespace is the
\* whitespace the trim removes (space, tab, CR, LF)
C20_ExtractorOnTrimmedWhitespace ==
    (extract.done /\ \A i \in 1..Len(extract.json) :
                        isspace(extract.json[i]) => extract.json[i] \in TrimChars)
        => extract.value = ExpectedValue

\* the cases of C20: an unquoted value with whitespace on both sides, a quoted
\* value, a quote never closed
C20_UnquotedReached ==
    /\ extract.done /\ extract.json = Marker \o <<" ", "1", " ", ",">>
    /\ extract.value = <<"1">>
C20_QuotedReached ==
    /\ extract.done /\ extract.json = Marker \o <<"\"", "1", " ", "\"">>
    /\ extract.value = <<"1", " ">>
C20_UnclosedReached ==
    /\ extract.done /\ extract.json = Marker \o <<" ", "\"", "1", "1">>
    /\ extract.value = <<>>

(***************************************************************************)
(* Claims about the latency metrics (MetricsSpec).                         *)
(***************************************************************************)
\* C13: once at least one non-empty response was counted, min <= avg <= max.
C13_MinAvgMax ==
    metrics_.request_count > metrics_.error_count =>
        /\ metrics_.min_api_latency <= metrics_.avg_api_latency
        /\ metrics_.avg_api_latency <= metrics_.max_api_latency

\* what does hold: min <= max and avg <= max
C13_AvgAtMostMax ==
    metrics_.request_count > metrics_.error_count =>
        /\ metrics_.min_api_latency <= metrics_.max_api_latency
        /\ metrics_.avg_api_latency <= metrics_.max_api_latency

\* the case of C13: empty and non-empty responses were both counted
C13_MixReached ==
    /\ metrics_.error_count = 2 /\ metrics_.request_count = 4
    /\ metrics_.min_api_latency = 1 /\ metrics_.max_api_latency = 3


(***************************************************************************)
(* Claims about parsing and the hand-off of ticks (DeliverySpec).          *)
(***************************************************************************)
\* C14: every tick forwarded to the Writer has
\* timestamp_us <= receive_time_us <= process_time_us (the clock of the model
\* never moves backward).
C14_TimestampOrder ==
    \A i \in 1..Len(forwarded) :
        /\ forwarded[i].timestamp_us <= forwarded[i].receive_time_us
        /\ forwarded[i].receive_time_us <= forwarded[i].process_time_us

\* what does hold: receive <= process, and the origin stamp is ahead of the
\* receive stamp by at most the 3 microseconds the parser adds
C14_ReceiveBeforeProcess ==
    \A i \in 1..Len(forwarded) :
        /\ forwarded[i].timestamp_us <= forwarded[i].receive_time_us + 3
        /\ forwarded[i].receive_time_us <= forwarded[i].process_time_us

\* the case of C14: a close tick forwarded after the clock advanced
C14_ForwardedReached ==
    /\ Len(forwarded) = 2
    /\ forwarded[2].timestamp_us = 3 /\ forwarded[2].receive_time_us = 3
    /\ forwarded[2].process_time_us = 4

\* the trades a day's fields stand for: open, high if it differs from open,
\* low if it differs from both, close; k is the place in that order
ExpectedTrades ==
    LET o == http_response.open.val
        h == http_response.high.val
        l == http_response.low.val
        c == http_response.close.val
    IN <<[k |-> 0, price |-> o]>>
       \o (IF h # o THEN <<[k |-> 1, price |-> h]>> ELSE <<>>)
       \o (IF l # o /\ l # h THEN <<[k |-> 2, price |-> l]>> ELSE <<>>)
       \o <<[k |-> 3, price |-> c]>>

Trades(ticks) ==
    [i \in 1..Len(ticks) |->
        [k |-> ticks[i].timestamp_us - parsed.at, price |-> ticks[i].price]]

\* C15: a successful parse yields open, high if high # open, low if low # open
\* and low # high, then close (2 to 4 ticks), and the callback receives each
\* tick exactly once, in that order.
C15_TicksInOrder ==
    (parsed.called /\ parsed.ret) =>
        /\ Trades(parsed.ticks) = ExpectedTrades
        /\ Len(parsed.ticks) \in 2..4
        /\ Len(forwarded) <= Len(ExpectedTrades)
        /\ Trades(forwarded) = SubSeq(ExpectedTrades, 1, Len(forwarded))
        /\ deliver_pc = "done" => Len(forwarded) = Len(ExpectedTrades)

\* C15 witness: open 100, high 105, low 100, close 102, volume 4000 handed
\* over as open, high, close with quantity 1000 and side B
C15_Witness ==
    /\ deliver_pc = "done"
    /\ http_response.open = Num(10000) /\ http_response.high = Num(10500)
    /\ http_response.low = Num(10000) /\ http_response.close = Num(10200)
    /\ Len(forwarded) = 3
    /\ \A i \in 1..3 : forwarded[i].quantity = 1000 /\ forwarded[i].side = "B"
    /\ <<forwarded[1].price, forwarded[2].price, forwarded[3].price>> = <<10000, 10500, 10200>>

\* C15: the four-tick case
C15_FourTicksReached ==
    /\ deliver_pc = "done" /\ Len(forwarded) = 4
    /\ forwarded[3].price = 9500 /\ forwarded[3].side = "S"

\* the payloads the parser must reject at once
Rejected ==
    \/ http_response.empty
    \/ http_response.error_message \/ http_response.invalid_api_call
    \/ http_response.thank_you /\ http_response.call_frequency

\* C16: on an empty payload, an error marker or the throttle marker the parse
\* returns failure with no ticks, and the callback is never invoked.
C16_RejectedPayloads ==
    Rejected =>
        /\ parse_time_series_response(http_response, loop_symbol, now_us)
              = [ret |-> FALSE, ticks |-> <<>>]
        /\ ~parsed.ret /\ parsed.ticks = <<>>
        /\ forwarded = <<>>
        /\ deliver_pc \in {"response", "done"}

\* C16 witness: the throttle message in a payload that otherwise holds a
\* complete day, after the response was handled
C16_Witness ==
    /\ deliver_pc = "done" /\ parsed.called
    /\ http_response.thank_you /\ http_response.call_frequency
    /\ ~http_response.error_message /\ ~http_response.invalid_api_call
    /\ http_response.locate = "block"
    /\ http_response.open = Num(10000) /\ http_response.high = Num(10500)
    /\ http_response.low = Num(9500) /\ http_response.close = Num(10200)
    /\ http_response.volume = Num(4000)

\* C16: the error marker and the empty payload
C16_ErrorMarkerReached ==
    /\ deliver_pc = "done" /\ parsed.called /\ http_response.error_message
    /\ http_response.locate = "block" /\ http_response.volume = Num(4000)
    /\ http_response.open = Num(10000) /\ http_response.close = Num(10200)
C16_EmptyReached == deliver_pc = "done" /\ http_response.empty


(***************************************************************************)
(* Claims about the pipeline's shutdown (PipelineSpec).                    *)
(***************************************************************************)
\* C11: with the cleanup order client, then Writer, no tick is handed to the
\* Writer after the Writer stopped, and when the shutdown is complete the
\* batch is empty and every tick the callback received is in exactly one send
\* attempt.
C11_ShutdownLosesNothing ==
    /\ wlast.op = "write_tick" => wlast.pre.running_
    /\ ~writer.running_ => pc = "none"
    /\ fg = "final" =>
         /\ ~writer.running_
         /\ writer.current_batch_ = <<>>
         /\ AttemptedIds(writer.attempts) = [i \in 1..ticks_received |-> i]

\* C11 witness: the shutdown is complete and the Writer's stop() flushed the
\* last, partial batch
C11_Witness ==
    /\ fg = "final" /\ ticks_received = 4 /\ writer.batch_size = 3
    /\ Len(writer.attempts) = 2 /\ writer.attempts[2].ids = <<4>>
    /\ wlast.op = "stop"

\* C12: the callback's Writer operations and the foreground's stop() never
\* overlap: the fetch loop has ended, every write_tick it made has returned,
\* before the foreground enters the Writer's stop().
C12_WriterCallsExclusive ==
    /\ Cardinality(inside) <= 1
    /\ fg \in {"writer_stop", "in_writer_stop", "final"} =>
          pc = "none" /\ "fetch" \notin inside

\* C12 witness: the foreground is inside the Writer's stop() after the
\* callback wrote ticks
C12_Witness ==
    /\ inside = {"main"} /\ fg = "in_writer_stop"
    /\ ticks_received = 2 /\ Len(writer.current_batch_) = 2

\* C12: the callback inside write_tick while the shutdown was requested
C12_CallbackInsideReached ==
    /\ inside = {"fetch"} /\ g_shutdown_requested /\ fg = "join"


(***************************************************************************)
(* Claims about the wire format (DeliverySpec: the ticks of a response     *)
(* written by the callback to a Writer of batch size DeliveryBatch).       *)
(***************************************************************************)
\* the line the wire format prescribes for a tick
ExpectedLine(t) ==
    <<"trades,symbol=", t.symbol, ",exchange=", t.exchange,
      " price=", to_string_double(t.price), ",quantity=", t.quantity,
      ",side=\"", t.side, "\"", " ", t.timestamp_us * 1000>>

\* the lines a payload carries: it must consist of lines and newlines in turn
RECURSIVE LinesOf(_)
LinesOf(payload) ==
    IF Len(payload) < 2 THEN <<>>
    ELSE <<payload[1]>> \o LinesOf(SubSeq(payload, 3, Len(payload)))

RECURSIVE SentLines(_)
SentLines(as) ==
    IF as = <<>> THEN <<>> ELSE LinesOf(Head(as).payload) \o SentLines(Tail(as))

\* C21: every tick written becomes exactly one line of the prescribed form,
\* with the origin timestamp in microseconds times 1000 at its end, and a
\* payload sent is the pending lines in order, each followed by a newline.
C21_WireFormat ==
    /\ SentLines(writer.attempts) \o writer.current_batch_
         = [i \in 1..Len(forwarded) |-> ExpectedLine(forwarded[i])]
    /\ \A a \in 1..Len(writer.attempts) :
         LET payload == writer.attempts[a].payload IN
         /\ Len(payload) = 2 * Len(writer.attempts[a].ids)
         /\ \A j \in 1..Len(payload) :
               IF j % 2 = 0 THEN payload[j] = "\n"
               ELSE "\n" \notin {payload[j][n] : n \in {2, 4, 10}}

\* C21 witness: a payload of three lines was sent and a fourth line is
\* pending: the close tick of a parse at microsecond 1, stamped 1 + 3
C21_Witness ==
    /\ Len(writer.attempts) = 1 /\ Len(writer.attempts[1].payload) = 6
    /\ Len(writer.current_batch_) = 1
    /\ writer.current_batch_[1][13] = 4000 /\ parsed.at = 1
    /\ forwarded[4].side = "S" /\ forwarded[4].quantity = 1000


(***************************************************************************)
(* Claims about the synthesized ticks (DeliverySpec).                      *)
(***************************************************************************)
\* which trade of the day a tick of the parsed response is: 0 open, 1 high,
\* 2 low, 3 close
TradeOf(t) == t.timestamp_us - parsed.at

\* C29: in every successful parse the open and the high tick are buys, the
\* low tick is a sell, and the close tick is a buy if close > open and a sell
\* otherwise.
C29_Sides ==
    (parsed.called /\ parsed.ret) =>
        \A i \in 1..Len(parsed.ticks) :
            LET t == parsed.ticks[i] IN
            t.side = CASE TradeOf(t) = 0 -> "B"
                       [] TradeOf(t) = 1 -> "B"
                       [] TradeOf(t) = 2 -> "S"
                       [] TradeOf(t) = 3 ->
                            IF http_response.close.val > http_response.open.val
                            THEN "B" ELSE "S"

\* C29 witness: a day whose close equals its open, with a high and a low
C29_Witness ==
    /\ parsed.ret /\ Len(parsed.ticks) = 4
    /\ http_response.close = http_response.open
    /\ parsed.ticks[4].side = "S" /\ parsed.ticks[3].side = "S"
    /\ parsed.ticks[2].side = "B"

\* C29: a close above the open
C29_CloseBuyReached ==
    /\ parsed.ret /\ http_response.close = Num(10200)
    /\ parsed.ticks[Len(parsed.ticks)].side = "B"

RECURSIVE SumQuantity(_)
SumQuantity(ticks) ==
    IF ticks = <<>> THEN 0 ELSE Head(ticks).quantity + SumQuantity(Tail(ticks))

\* C30: every tick of a response has quantity floor(volume / 4), so the ticks
\* share one quantity and their quantities sum to at most the volume.
C30_QuarterVolume ==
    (parsed.called /\ parsed.ret) =>
        LET v == http_response.volume.val IN
        /\ \A i \in 1..Len(parsed.ticks) :
              /\ 4 * parsed.ticks[i].quantity <= v
              /\ v < 4 * (parsed.ticks[i].quantity + 1)
        /\ \A i, j \in 1..Len(parsed.ticks) :
              parsed.ticks[i].quantity = parsed.ticks[j].quantity
        /\ SumQuantity(parsed.ticks) <= v

\* C30 witness: four ticks of a volume that 4 does not divide
C30_Witness ==
    /\ parsed.ret /\ Len(parsed.ticks) = 4
    /\ http_response.volume = Num(4003)
    /\ SumQuantity(parsed.ticks) = 4000

\* C30: a volume below 4 gives ticks of quantity 0
C30_ZeroQuantityReached ==
    /\ parsed.ret /\ http_response.volume = Num(3)
    /\ parsed.ticks[1].quantity = 0


(***************************************************************************)
(* Claims about one metrics update (MetricsSpec).                          *)
(***************************************************************************)
\* C27: an empty response adds 1 to request_count and to error_count and
\* leaves avg, min and max alone; a non-empty response with latency L adds 1
\* to request_count only, sets avg to (avg * (count - 1) + L) / count with the
\* count already incremented, raises max if L > max and lowers min if L < min.
C27_EmptyStep ==
    /\ metrics_'.request_count = metrics_.request_count + 1
    /\ metrics_'.error_count = metrics_.error_count + 1
    /\ metrics_'.avg_api_latency = metrics_.avg_api_latency
    /\ metrics_'.min_api_latency = metrics_.min_api_latency
    /\ metrics_'.max_api_latency = metrics_.max_api_latency

C27_NonEmptyStep(L) ==
    LET count == metrics_.request_count + 1
    IN /\ metrics_'.request_count = count
       /\ metrics_'.error_count = metrics_.error_count
       /\ metrics_'.avg_api_latency =
              (metrics_.avg_api_latency * (count - 1) + L) \div count
       /\ metrics_'.max_api_latency =
              IF L > metrics_.max_api_latency THEN L ELSE metrics_.max_api_latency
       /\ metrics_'.min_api_latency =
              IF L < metrics_.min_api_latency THEN L ELSE metrics_.min_api_latency

C27_UpdateStep ==
    [][/\ metrics_'.error_count # metrics_.error_count => C27_EmptyStep
       /\ (/\ metrics_'.request_count # metrics_.request_count
           /\ metrics_'.error_count = metrics_.error_count)
             => \E L \in 0..MaxLatency : C27_NonEmptyStep(L)]_vars

\* the case of C27: latencies 1 and 3 were averaged and a failure counted
C27_Witness ==
    /\ metrics_.request_count = 3 /\ metrics_.error_count = 1
    /\ metrics_.avg_api_latency = 2
    /\ metrics_.min_api_latency = 1 /\ metrics_.max_api_latency = 3

\* C28: while no request has returned a non-empty response the minimum stays
\* at the largest representable duration and avg and max stay 0, however many
\* requests failed.
C28_SentinelUntilSuccess ==
    metrics_.request_count = metrics_.error_count =>
        /\ metrics_.min_api_latency = microseconds_max
        /\ metrics_.avg_api_latency = 0
        /\ metrics_.max_api_latency = 0

\* the case of C28: several requests failed and none succeeded
C28_Witness ==
    /\ metrics_.error_count >= 3
    /\ metrics_.request_count = metrics_.error_count
    /\ metrics_.min_api_latency = microseconds_max


(***************************************************************************)
(* LimiterSpec: the rate limiter of one client under any interleaving of   *)
(* can_make_request, record_request and the passing of time, the clock     *)
(* moving by one hour or by ClockStep hours.                               *)
(***************************************************************************)
\* most record_request calls followed
MaxRecords == 3

LimiterFrame ==
    UNCHANGED <<api_key_, symbols_, running_, stop_requested_, fetch_thread_,
                pc, sym_i, ticks_left, fg, crashed, clast, writerVars, calcVars>>

LimiterInit ==
    /\ ClientIdle
    /\ writer = NewWriter(1)
    /\ wlast = [op |-> "new", ret |-> FALSE, pre |-> NewWriter(0)]
    /\ CalcIdle

\* can_make_request() const: the time points are read, never written
LimAllow ==
    /\ ~allow_log.called
    /\ allow_log' = [called |-> TRUE,
                     ret |-> can_make_request(request_times_, clock),
                     at |-> clock]
    /\ UNCHANGED <<request_times_, issued, clock>>
    /\ LimiterFrame

\* record_request()
LimRecord ==
    /\ Len(issued) < MaxRecords
    /\ request_times_' = record_request(request_times_, clock)
    /\ issued' = Remember(issued, clock)
    /\ allow_log' = NoAllow
    /\ UNCHANGED clock
    /\ LimiterFrame

\* time passes
LimTick ==
    /\ \E hours \in {1, ClockStep} :
          /\ clock + hours <= MaxClock
          /\ clock' = clock + hours
    /\ allow_log' = NoAllow
    /\ UNCHANGED <<request_times_, issued>>
    /\ LimiterFrame

LimiterNext == LimAllow \/ LimRecord \/ LimTick

LimiterSpec == LimiterInit /\ [][LimiterNext]_vars

(***************************************************************************)
(* Claims about pruning (LimiterSpec).                                     *)
(***************************************************************************)
\* time points of the sequence that are at least 24 hours old at time now
ADayOld(times, now) ==
    {i \in DOMAIN times : now - times[i] >= HOURS_24}

\* C26 as stated: after any allow() call, as after any record() call, no
\* retained time point is older than 24 hours.
C26_PrunedOnEveryCheck ==
    allow_log.called =>
        \A i \in DOMAIN request_times_ :
            allow_log.at - request_times_[i] <= HOURS_24

\* C26 as amended: record() prunes, so that after any record() call no
\* retained time point is 24 hours old or older; allow() never changes the
\* sequence, it only leaves such time points out of its count.
C26_RecordPrunesAllowReads ==
    [][/\ issued' # issued => ADayOld(request_times_', clock') = {}
       /\ allow_log'.called =>
             /\ request_times_' = request_times_
             /\ allow_log'.ret <=>
                   Len(request_times_) - Cardinality(ADayOld(request_times_, clock))
                      < MAX_REQUESTS_PER_DAY]_vars

\* the case of C26: record() has just dropped a time point exactly 24 hours
\* old and kept a younger one
C26_Witness ==
    /\ Len(issued) = 3 /\ Len(request_times_) = 2
    /\ issued[1] = clock - HOURS_24
    /\ request_times_[2] = clock
    /\ ~allow_log.called

\* allow() has returned and a time point older than 24 hours is still there
C26_StaleAfterAllowReached ==
    /\ allow_log.called
    /\ \E i \in DOMAIN request_times_ :
          allow_log.at - request_times_[i] > HOURS_24


(***************************************************************************)
(* Claims about the pacing sleep (Spec).                                   *)
(***************************************************************************)
\* C25: after finishing a symbol the loop performs the pacing sleep only if
\* stop has not been requested.  A Pace step is the sleep_for(1 s) that ends
\* the for body.
C25_PaceOnlyIfNotStopped == [][Pace => ~stop_requested_]_vars

\* the case of C25: a symbol is finished, its pacing sleep is next, and stop
\* has been requested
C25_StopBeforePaceReached == pc = "pace" /\ stop_requested_ /\ ~crashed


(***************************************************************************)
(* CycleSpec: data_fetch_loop of a started client, cycle after cycle, with *)
(* the limiter, the metrics and a history of the requests of the current   *)
(* cycle.  stop() may be called at any point.  No time passes between the  *)
(* requests, so the quota is used up after MAX_REQUESTS_PER_DAY requests   *)
(* and no time point is pruned.                                            *)
(***************************************************************************)
CycleInit ==
    /\ api_key_ = "demo" /\ symbols_ = DefaultSymbols
    /\ LET c == start(ClientSnapshot(FALSE, FALSE, "empty", "none", FALSE),
                      "demo", DefaultSymbols).c IN
         /\ running_ = c.running_ /\ stop_requested_ = c.stop_requested_
         /\ fetch_thread_ = c.fetch_thread_ /\ pc = c.pc /\ crashed = c.crashed
    /\ request_times_ = <<>> /\ sym_i = 0 /\ ticks_left = 0
    /\ fg = "idle"
    /\ clock = 0 /\ issued = <<>> /\ allow_log = NoAllow
    /\ clast = [op |-> "start", ret |-> TRUE]
    /\ writer = NewWriter(1)
    /\ wlast = [op |-> "new", ret |-> FALSE, pre |-> NewWriter(0)]
    /\ CalcIdle

\* what no step of the fetch loop changes
CycleFrame ==
    UNCHANGED <<api_key_, symbols_, running_, stop_requested_, fetch_thread_, fg,
                crashed, clock, clast, writerVars, extract, deliveryVars, pipeVars>>

\* the history after the latest entry of a sequence field was replaced
SetLast(seq, value) == [seq EXCEPT ![Len(seq)] = value]

\* stop() up to join(): the stop flag is set
CycStop ==
    /\ running_
    /\ LET c == stop_begin(ClientSnapshot(running_, stop_requested_, fetch_thread_,
                                          pc, crashed)) IN
         /\ running_' = c.running_ /\ stop_requested_' = c.stop_requested_
    /\ fg' = "join"
    /\ clast' = [op |-> "stop", ret |-> TRUE]
    /\ UNCHANGED <<api_key_, symbols_, fetch_thread_, request_times_, pc, sym_i,
                   ticks_left, crashed, clock, issued, allow_log, writerVars,
                   calcVars>>

\* while (!stop_requested_.load()): a new cycle starts or the loop ends
CycLoopTest ==
    /\ pc = "loop_test"
    /\ IF loop_continues(stop_requested_)
       THEN /\ sym_i' = 1
            /\ pc' = "for_test"
            /\ cycle' = [cycle EXCEPT !.requested = <<>>, !.kinds = <<>>,
                                      !.ticks = <<>>, !.refused = FALSE]
       ELSE /\ pc' = "done"
            /\ UNCHANGED <<sym_i, cycle>>
    /\ UNCHANGED <<request_times_, ticks_left, issued, allow_log, metrics_>>
    /\ CycleFrame

\* the for loop's test and the stop check at the top of its body
CycForTest ==
    /\ pc = "for_test"
    /\ IF symbol_loop_ends(sym_i, Len(symbols_), stop_requested_)
       THEN /\ pc' = "wait_test"
            /\ sym_i' = 0
       ELSE /\ pc' = "rate_check"
            /\ UNCHANGED sym_i
    /\ UNCHANGED <<request_times_, ticks_left, issued, allow_log, metrics_, cycle>>
    /\ CycleFrame

\* mutant of rate_limit_check: a refused symbol is skipped and the next tried
rate_limit_check_continue(allowed, i) ==
    IF allowed THEN [pc |-> "http", sym_i |-> i]
    ELSE [pc |-> "for_test", sym_i |-> i + 1]

\* if (!can_make_request()) break; - where the loop is next
rate_limit_check(allowed, i) ==
    IF allowed THEN [pc |-> "http", sym_i |-> i]
    ELSE [pc |-> "wait_test", sym_i |-> 0]

\* can_make_request, then the request is issued or the for loop left
CycRateCheck ==
    /\ pc = "rate_check"
    /\ LET allowed == can_make_request(request_times_, clock)
           next == rate_limit_check(allowed, sym_i) IN
         /\ allow_log' = [called |-> TRUE, ret |-> allowed, at |-> clock]
         /\ pc' = next.pc
         /\ sym_i' = next.sym_i
         /\ issued' = IF allowed THEN Remember(issued, clock) ELSE issued
         /\ cycle' = IF allowed
                     THEN [cycle EXCEPT !.requested = Append(@, sym_i),
                                        !.issued_total = @ + 1,
                                        !.after_stop =
                                            IF stop_requested_ THEN @ + 1 ELSE @]
                     ELSE [cycle EXCEPT !.refused = TRUE]
    /\ UNCHANGED <<request_times_, ticks_left, metrics_>>
    /\ CycleFrame

\* mutant of after_response: a response without ticks ends the cycle
after_response_break(ticks) == IF ticks > 0 THEN "callback" ELSE "wait_test"

\* lines 420-439: the ticks of a parsed response go to the callback; after
\* an empty or unparsable response the pacing sleep is next
after_response(ticks) == IF ticks > 0 THEN "callback" ELSE "pace"

\* make_http_request returns: record_request, the metrics update, the parse
CycHttpReturn ==
    /\ pc = "http"
    /\ \E response \in Responses :
         /\ request_times_' = after_request(request_times_, clock, response)
         /\ metrics_' = update_metrics(metrics_, response = "empty", MaxLatency)
         /\ ticks_left' = TicksOf(response)
         /\ pc' = after_response(TicksOf(response))
         /\ cycle' = [cycle EXCEPT !.kinds = Append(@, response),
                                   !.ticks = Append(@, 0),
                                   !.empties = IF response = "empty" THEN @ + 1 ELSE @]
    /\ allow_log' = NoAllow
    /\ UNCHANGED <<sym_i, issued>>
    /\ CycleFrame

\* invoke_callback for the next tick of the response
CycCallback ==
    /\ pc = "callback"
    /\ ticks_left' = ticks_left - 1
    /\ pc' = IF ticks_left = 1 THEN "pace" ELSE "callback"
    /\ cycle' = [cycle EXCEPT !.ticks = SetLast(@, @[Len(@)] + 1)]
    /\ UNCHANGED <<request_times_, sym_i, issued, allow_log, metrics_>>
    /\ CycleFrame

\* sleep_for(1 s) at the end of the for body, then the next symbol
CycPace ==
    /\ pc = "pace"
    /\ sym_i' = sym_i + 1
    /\ pc' = "for_test"
    /\ UNCHANGED <<request_times_, ticks_left, issued, allow_log, metrics_, cycle>>
    /\ CycleFrame

\* the test of the inter-cycle wait; whether polling_interval_ has elapsed
\* is an input
CycWaitTest ==
    /\ pc = "wait_test"
    /\ \E elapsed \in BOOLEAN :
         pc' = IF ~stop_requested_ /\ ~elapsed THEN "wait_sleep" ELSE "loop_test"
    /\ allow_log' = NoAllow
    /\ UNCHANGED <<request_times_, sym_i, ticks_left, issued, metrics_, cycle>>
    /\ CycleFrame

\* sleep_for(1 s) inside the inter-cycle wait
CycWaitSleep ==
    /\ pc = "wait_sleep"
    /\ pc' = "wait_test"
    /\ UNCHANGED <<request_times_, sym_i, ticks_left, issued, allow_log, metrics_,
                   cycle>>
    /\ CycleFrame

CycleNext ==
    \/ CycStop
    \/ CycLoopTest
    \/ CycForTest
    \/ CycRateCheck
    \/ CycHttpReturn
    \/ CycCallback
    \/ CycPace
    \/ CycWaitTest
    \/ CycWaitSleep

CycleSpec == CycleInit /\ [][CycleNext]_vars


(***************************************************************************)
(* Claims about the requests of one cycle (CycleSpec).                     *)
(***************************************************************************)
\* the fetch loop is between two cycles or has ended
OutsideForLoop == pc \in {"wait_test", "wait_sleep", "loop_test", "done"}

\* C22: the symbols requested in a cycle are a prefix of the configured list
\* in its order, each requested at most once; once allow() has returned false
\* no further request is issued in that cycle and the loop is at the
\* inter-cycle wait, never waiting for the limiter.
C22_PrefixPerCycle ==
    /\ Len(cycle.requested) <= Len(symbols_)
    /\ \A i \in DOMAIN cycle.requested : cycle.requested[i] = i
    /\ cycle.refused => OutsideForLoop
    /\ (allow_log.called /\ ~allow_log.ret) => pc = "wait_test"

\* the case of C22: the quota ran out after the first symbol of a cycle
C22_Witness ==
    /\ cycle.refused /\ cycle.requested = <<1>>
    /\ allow_log.called /\ ~allow_log.ret
    /\ pc = "wait_test"

\* a whole cycle was requested
C22_FullCycleReached ==
    /\ cycle.requested = <<1, 2>> /\ ~cycle.refused /\ pc = "wait_test"

\* C23: every request issued is recorded in the limiter once and counted in
\* request_count once, whatever its response; error_count counts the empty
\* responses only, so error_count <= request_count = number of record() calls
\* (the retained time points, none being pruned here).
C23_RecordedAndCountedOnce ==
    LET in_flight == IF pc = "http" THEN 1 ELSE 0 IN
    /\ Len(request_times_) = cycle.issued_total - in_flight
    /\ metrics_.request_count = cycle.issued_total - in_flight
    /\ metrics_.request_count = Len(request_times_)
    /\ metrics_.error_count = cycle.empties
    /\ metrics_.error_count <= metrics_.request_count

\* the case of C23: empty, unparsable and valid responses were all counted
C23_Witness ==
    /\ metrics_.request_count = 4 /\ metrics_.error_count = 1
    /\ Len(request_times_) = 4
    /\ cycle.kinds = <<"unparsable", "ticks2">>
    /\ pc = "wait_test"

Failed(response) == response \in {"empty", "unparsable"}

\* the request at position i of the cycle is done with
Finished(i) == i < Len(cycle.kinds) \/ pc # "callback"

\* a failed response gives no tick, the others give theirs, and no symbol is
\* requested twice in the cycle
C24_NoTicksOfFailed ==
    /\ \A i \in DOMAIN cycle.kinds :
          /\ Failed(cycle.kinds[i]) => cycle.ticks[i] = 0
          /\ Finished(i) => cycle.ticks[i] = TicksOf(cycle.kinds[i])
    /\ \A i, j \in DOMAIN cycle.requested :
          cycle.requested[i] = cycle.requested[j] => i = j

\* after a failed response the pacing sleep, then the next symbol, which is
\* requested unless stop was requested or the limiter refuses
C24_Proceeds ==
    /\ (pc = "http" /\ pc' # pc /\ Failed(cycle'.kinds[Len(cycle'.kinds)]))
          => (pc' = "pace" /\ sym_i' = sym_i)
    /\ (pc = "pace" /\ pc' # pc)
          => (pc' = "for_test" /\ sym_i' = sym_i + 1 /\ cycle' = cycle)
    /\ (pc = "for_test" /\ pc' # pc /\ sym_i <= Len(symbols_) /\ ~stop_requested_)
          => (pc' = "rate_check" /\ sym_i' = sym_i)
    /\ (pc = "rate_check" /\ pc' # pc /\ allow_log'.ret)
          => (pc' = "http" /\ cycle'.requested = Append(cycle.requested, sym_i))

\* C24: an empty response or a failed parse for a symbol gives no tick for
\* that symbol and takes none from the others; the loop goes on to the pacing
\* sleep and the next symbol of the cycle, which is requested unless stop was
\* requested or the limiter refuses; no symbol is requested twice in a cycle.
C24_FailedSymbolOnly ==
    /\ []C24_NoTicksOfFailed
    /\ [][C24_Proceeds]_vars

\* the case of C24: the first symbol failed and the second was requested and
\* delivered its ticks
C24_Witness ==
    /\ cycle.requested = <<1, 2>>
    /\ cycle.kinds = <<"unparsable", "ticks4">>
    /\ cycle.ticks = <<0, 4>>
    /\ pc = "pace"

\* the first symbol's response was empty and the second is in flight
C24_EmptyThenNextReached ==
    /\ cycle.requested = <<1, 2>> /\ cycle.kinds = <<"empty">>
    /\ cycle.ticks = <<0>> /\ pc = "http"


(***************************************************************************)
(* Claims about the parse of one response (DeliverySpec).                  *)
(***************************************************************************)
\* the offset of the stamp of tick i of a parsed day: the first tick is the
\* open and the last the close; between them a buy is the high and a sell
\* the low
FieldOffset(ticks, i) ==
    IF i = 1 THEN 0
    ELSE IF i = Len(ticks) THEN 3
    ELSE IF ticks[i].side = "B" THEN 1 ELSE 2

\* C31: the ticks of one response carry base, base+1, base+2, base+3 for the
\* open, high, low and close, base being the one time read at the parse; the
\* offset belongs to the field even when the high or the low is skipped, and
\* the stamps increase strictly in the order the ticks are made.
C31_FixedOffsets ==
    (parsed.called /\ parsed.ret) =>
        /\ \A i \in DOMAIN parsed.ticks :
              parsed.ticks[i].timestamp_us = parsed.at + FieldOffset(parsed.ticks, i)
        /\ \A i, j \in DOMAIN parsed.ticks :
              i < j => parsed.ticks[i].timestamp_us < parsed.ticks[j].timestamp_us

\* the case of C31: the high equals the open and is skipped, the low keeps
\* the offset 2
C31_Witness ==
    /\ parsed.called /\ parsed.ret /\ parsed.at > 0
    /\ http_response.high = http_response.open
    /\ Len(parsed.ticks) = 3
    /\ parsed.ticks[2].price = 9500
    /\ parsed.ticks[2].timestamp_us = parsed.at + 2
    /\ parsed.ticks[3].timestamp_us = parsed.at + 3

\* only the open and the close are made: base and base+3
C31_TwoTicksReached ==
    /\ parsed.called /\ parsed.ret /\ Len(parsed.ticks) = 2
    /\ parsed.ticks[2].timestamp_us = parsed.at + 3

\* one of the open, close and volume of the dated entry is not recovered
Unrecovered ==
    \/ http_response.open.kind = "empty"
    \/ http_response.close.kind = "empty"
    \/ http_response.volume.kind = "empty"

\* C32: the parse fails and makes no tick if the open, the close or the
\* volume cannot be recovered from the dated entry.
C32_RequiredFields ==
    Unrecovered =>
        /\ parse_time_series_response(http_response, loop_symbol, now_us)
              = [ret |-> FALSE, ticks |-> <<>>]
        /\ ~parsed.ret /\ parsed.ticks = <<>>
        /\ forwarded = <<>>

\* the case of C32: a dated entry with everything but the close, parsed
C32_Witness ==
    /\ deliver_pc = "done" /\ parsed.called /\ ~Rejected
    /\ http_response.locate = "block"
    /\ http_response.open = Num(10000) /\ http_response.high = Num(10500)
    /\ http_response.low = Num(9500) /\ http_response.close = Absent
    /\ http_response.volume = Num(4000)

\* the volume is missing
C32_NoVolumeReached ==
    /\ deliver_pc = "done" /\ parsed.called /\ ~Rejected
    /\ http_response.locate = "block"
    /\ http_response.open = Num(10000) /\ http_response.close = Num(10200)
    /\ http_response.high = Num(10500) /\ http_response.low = Num(9500)
    /\ http_response.volume = Absent

\* C39: on every failure path, a missing or non-numeric high or low and a
\* non-numeric volume included, the parse leaves the tick list as it was
\* (empty), and a failed parse is followed by no callback invocation.
C39_AllOrNothing ==
    /\ ~parse_time_series_response(http_response, loop_symbol, now_us).ret
          => parse_time_series_response(http_response, loop_symbol, now_us).ticks = <<>>
    /\ (parsed.called /\ ~parsed.ret) =>
          /\ parsed.ticks = <<>>
          /\ forwarded = <<>>
          /\ deliver_pc = "done"

\* the case of C39: open, high, close and volume are numbers and the low is
\* not; the parse has failed
C39_Witness ==
    /\ deliver_pc = "done" /\ parsed.called /\ ~parsed.ret /\ ~Rejected
    /\ http_response.locate = "block"
    /\ http_response.open = Num(10000) /\ http_response.high = Num(10500)
    /\ http_response.low = Junk /\ http_response.close = Num(10200)
    /\ http_response.volume = Num(4000)

\* the high is missing
C39_NoHighReached ==
    /\ deliver_pc = "done" /\ parsed.called /\ ~parsed.ret /\ ~Rejected
    /\ http_response.open = Num(10000) /\ http_response.high = Absent
    /\ http_response.low = Num(9500) /\ http_response.close = Num(10200)
    /\ http_response.volume = Num(4000)

\* the volume is not a number
C39_JunkVolumeReached ==
    /\ deliver_pc = "done" /\ parsed.called /\ ~parsed.ret /\ ~Rejected
    /\ http_response.open = Num(10000) /\ http_response.high = Num(10500)
    /\ http_response.low = Num(9500) /\ http_response.close = Num(10200)
    /\ http_response.volume = Junk


(***************************************************************************)
(* Claims about the orchestrator's counters and report (PipelineSpec).     *)
(***************************************************************************)
\* the callback is inside a write_tick that flushes: the batch reaches its
\* size with this tick, and flush writes the three counters
FlushOnFetchThread ==
    /\ "fetch" \in inside /\ pc = "write_tick"
    /\ Len(writer.current_batch_) + 1 >= writer.batch_size

\* C35: the foreground's statistics report never reads the Writer's counters
\* while a flush on the fetch-loop thread is updating them.
C35_NoReadDuringFlush == ~(fg = "stats" /\ FlushOnFetchThread)

\* (double)ticks_written / ticks_received * 100.0 with one decimal, in
\* tenths of a percent
success_rate(written, received) == (written * 1000) \div received

RECURSIVE FailedLines(_)
FailedLines(as) ==
    IF as = <<>> THEN 0
    ELSE (IF Head(as).ok THEN 0 ELSE Len(Head(as).ids)) + FailedLines(Tail(as))

\* C36: the write_tick calls accepted while running are lines_sent plus the
\* lines of the batches whose send failed plus the pending lines;
\* batches_sent + errors is the number of flushes of a non-empty batch; so
\* lines_sent + pending <= accepted writes, with equality iff errors = 0.
C36_Conservation ==
    LET stats == writer.stats_
        pending == Len(writer.current_batch_) IN
    /\ writer.accepted = stats.lines_sent + FailedLines(writer.attempts) + pending
    /\ Len(writer.written_lines) = writer.accepted
    /\ stats.batches_sent + stats.errors = Len(writer.attempts)
    /\ stats.lines_sent + pending <= writer.accepted
    /\ (stats.lines_sent + pending = writer.accepted) <=> (stats.errors = 0)

\* the case of C36: a batch of two was lost, one line was sent, one is pending
C36_Witness ==
    /\ writer.accepted = 4 /\ writer.stats_.errors = 1
    /\ writer.stats_.lines_sent = 1 /\ writer.stats_.batches_sent = 1
    /\ FailedLines(writer.attempts) = 2
    /\ Len(writer.current_batch_) = 1

\* the payloads handed to send(), one after the other
RECURSIVE AttemptedPayloads(_)
AttemptedPayloads(as) ==
    IF as = <<>> THEN <<>> ELSE Head(as).payload \o AttemptedPayloads(Tail(as))

\* C37: the lines of a payload are in the order their ticks were written and
\* the payloads are attempted in that order: all payloads together are a
\* prefix of the accepted writes, and are all of them once the batch is empty.
C37_OrderPreserved ==
    LET attempted == AttemptedPayloads(writer.attempts)
        written == batch_data(writer.written_lines) IN
    /\ Len(attempted) <= Len(written)
    /\ attempted = SubSeq(written, 1, Len(attempted))
    /\ attempted \o batch_data(writer.current_batch_) = written
    /\ writer.current_batch_ = <<>> => attempted = written

\* the case of C37: two different lines went out in one payload, then a
\* second payload, and nothing is pending
C37_Witness ==
    /\ Len(writer.attempts) = 2 /\ writer.current_batch_ = <<>>
    /\ Len(writer.attempts[1].ids) = 2
    /\ writer.attempts[1].payload[1] # writer.attempts[1].payload[3]
    /\ writer.accepted = 3


(***************************************************************************)
(* Claims about is_running() and the stop flag (Spec, CycleSpec).          *)
(***************************************************************************)
\* bool AlphaVantageClient::is_running() const
is_running == running_

\* a step of the fetch loop that starts a network request
IssuesRequest == RateCheck /\ pc' = "http"

\* C34: whenever is_running() returns false the fetch loop is not executing:
\* it issues no request and invokes no callback while is_running() is false.
C34_NotRunningLoopOff ==
    [][~is_running => ~(IssuesRequest \/ Callback)]_vars

\* the case of C34: stop() has cleared running_ and waits in join() while the
\* loop, past its stop check, is about to ask the limiter and issue a request
C34_RequestWhileNotRunningReached ==
    ~is_running /\ fg = "join" /\ pc = "rate_check" /\ ~crashed


\* C33: once stop has been requested the fetch loop leaves the symbol loop
\* at its next test, and under every interleaving of stop() with the loop at
\* most one network request is started after the stop flag was set (the flag
\* is checked before the rate-limit check, not together with the request).
C33_OneRequestAfterStop ==
    /\ [](cycle.after_stop <= 1)
    /\ [][(CycForTest /\ stop_requested_) => pc' = "wait_test"]_vars
    /\ [][(stop_requested_ /\ pc # "rate_check") => pc' # "rate_check"]_vars

\* C33 witness: stop() came between the stop check and the rate-limit check
\* of the second symbol; one request was started after it and the loop ended
C33_Witness ==
    /\ cycle.after_stop = 1 /\ cycle.requested = <<1, 2>>
    /\ stop_requested_ /\ pc = "done"


(***************************************************************************)
(* PollSpec: data_fetch_loop of a started client that is never stopped,    *)
(* polling for ever while time passes without bound.  The limiter only     *)
(* compares a time point with now - 24 h, so the state keeps now at        *)
(* HOURS_24 and moves the retained time points back when time passes; a    *)
(* time point that reaches 0 is 24 hours old or older.  The symbol list is *)
(* the fallback list or one with more symbols than the daily quota.        *)
(***************************************************************************)
ManySymbols ==
    <<"S01", "S02", "S03", "S04", "S05", "S06", "S07", "S08", "S09", "S10",
      "S11", "S12", "S13", "S14", "S15", "S16", "S17", "S18", "S19", "S20",
      "S21", "S22", "S23", "S24", "S25", "S26">>

PollInit ==
    /\ api_key_ = "demo"
    /\ \E syms \in {DefaultSymbols, ManySymbols} :
         LET c == start(ClientSnapshot(FALSE, FALSE, "empty", "none", FALSE),
                        "demo", syms).c IN
           /\ symbols_ = syms
           /\ running_ = c.running_ /\ stop_requested_ = c.stop_requested_
           /\ fetch_thread_ = c.fetch_thread_ /\ pc = c.pc /\ crashed = c.crashed
    /\ request_times_ = <<>> /\ sym_i = 0 /\ ticks_left = 0
    /\ fg = "idle"
    /\ clock = HOURS_24 /\ issued = <<>> /\ allow_log = NoAllow
    /\ clast = [op |-> "start", ret |-> TRUE]
    /\ writer = NewWriter(1)
    /\ wlast = [op |-> "new", ret |-> FALSE, pre |-> NewWriter(0)]
    /\ CalcIdle

\* the time points after d hours passed, relative to the new now
Aged(times, d) ==
    [i \in DOMAIN times |-> IF times[i] > d THEN times[i] - d ELSE 0]

\* time passes: system_clock::now() is ClockStep hours later
Elapse ==
    /\ request_times_' = Aged(request_times_, ClockStep)
    /\ UNCHANGED <<api_key_, symbols_, running_, stop_requested_, fetch_thread_,
                   pc, sym_i, ticks_left, fg, crashed, clock, issued, allow_log,
                   clast, writerVars, calcVars>>

\* the inter-cycle wait ends: polling_interval_ has elapsed
WaitElapsed == WaitTest /\ pc' = "loop_test"

PollNext ==
    \/ LoopTest
    \/ ForTest
    \/ RateCheck
    \/ HttpReturn
    \/ Callback
    \/ Pace
    \/ WaitTest
    \/ WaitSleep
    \/ Elapse

\* the scheduler runs the fetch loop; requests, callbacks and sleeps return;
\* the polling interval elapses after finitely many one-second sleeps; time
\* keeps advancing
PollSpec ==
    /\ PollInit /\ [][PollNext]_vars
    /\ WF_vars(FetchLoop)
    /\ SF_vars(WaitElapsed)
    /\ WF_vars(Elapse)

\* symbol i of the list has just been requested
Requested(i) == pc = "http" /\ sym_i = i

\* C40: no starvation - while the client keeps running and time keeps
\* advancing, every configured symbol is requested infinitely often, a symbol
\* late in the declared order included.
C40_NoStarvation ==
    \A i \in 1..Len(ManySymbols) : []<>(i > Len(symbols_) \/ Requested(i))

\* C40 as far as it holds: the first configured symbol is requested
\* infinitely often.
C40_FirstSymbolServed == []<>Requested(1)

\* C40 witness: the quota is used up by the first MAX_REQUESTS_PER_DAY
\* symbols, the next symbol was refused, a day passed and the first symbol is
\* requested again
C40_Witness ==
    /\ Requested(1) /\ symbols_ = ManySymbols
    /\ Len(request_times_) = MAX_REQUESTS_PER_DAY
    /\ \A i \in DOMAIN request_times_ : request_times_[i] = 0

\* the case C40 is about: a symbol late in the order is refused
C40_LateSymbolRefusedReached ==
    /\ symbols_ = ManySymbols /\ pc = "wait_test"
    /\ allow_log = [called |-> TRUE, ret |-> FALSE, at |-> clock]
    /\ Len(request_times_) = MAX_REQUESTS_PER_DAY


=============================================================================
